---- MODULE Spec2Model ----
(***************************************************************************)
(* A model of the MealPlanner client (src/src/app/page.tsx, the current    *)
(* revision at lines 1-811) together with the login and state endpoints    *)
(* it talks to.                                                            *)
(*                                                                         *)
(* Strings are sequences of one-character strings, so that trim,           *)
(* toLowerCase, split, join and the "|||" key concatenation are computed   *)
(* character by character as the code computes them.  Quantities are       *)
(* integers.  A recipe's notes take part in no computation and are left    *)
(* out of the record.                                                      *)
(***************************************************************************)
EXTENDS Integers, Sequences, FiniteSets, TLC

(***************************************************************************)
(* Strings                                                                 *)
(***************************************************************************)
UpperCase == <<"A","B","C","D","E","F","G","H","I","J","K","L","M",
               "N","O","P","Q","R","S","T","U","V","W","X","Y","Z">>
LowerCase == <<"a","b","c","d","e","f","g","h","i","j","k","l","m",
               "n","o","p","q","r","s","t","u","v","w","x","y","z">>

NL == "\n"
WhiteSpace == {" ", NL}

LowerChar(c) ==
  IF \E i \in 1..26 : UpperCase[i] = c
  THEN LowerCase[CHOOSE i \in 1..26 : UpperCase[i] = c]
  ELSE c

\* String.prototype.toLowerCase
ToLowerCase(s) == [i \in 1..Len(s) |-> LowerChar(s[i])]

RECURSIVE TrimStart(_)
TrimStart(s) ==
  IF s # <<>> /\ Head(s) \in WhiteSpace THEN TrimStart(Tail(s)) ELSE s

RECURSIVE TrimEnd(_)
TrimEnd(s) ==
  IF s # <<>> /\ s[Len(s)] \in WhiteSpace
  THEN TrimEnd(SubSeq(s, 1, Len(s) - 1))
  ELSE s

\* String.prototype.trim
Trim(s) == TrimEnd(TrimStart(s))

\* s.split("\n"): the segments between the separators, "" gives [""]
RECURSIVE SplitLines(_)
SplitLines(s) ==
  IF \E i \in 1..Len(s) : s[i] = NL
  THEN LET k == CHOOSE i \in 1..Len(s) :
                   s[i] = NL /\ \A j \in 1..(i - 1) : s[j] # NL
       IN <<SubSeq(s, 1, k - 1)>> \o SplitLines(SubSeq(s, k + 1, Len(s)))
  ELSE <<s>>

\* arr.join("\n")
RECURSIVE JoinLines(_)
JoinLines(arr) ==
  IF arr = <<>> THEN <<>>
  ELSE IF Len(arr) = 1 THEN arr[1]
  ELSE arr[1] \o <<NL>> \o JoinLines(Tail(arr))

RECURSIVE SeqFilterNonEmpty(_)
\* arr.filter(Boolean) on an array of strings
SeqFilterNonEmpty(arr) ==
  IF arr = <<>> THEN <<>>
  ELSE IF Head(arr) = <<>> THEN SeqFilterNonEmpty(Tail(arr))
  ELSE <<Head(arr)>> \o SeqFilterNonEmpty(Tail(arr))

\* arr.map((x) => x.trim()).filter(Boolean)
TrimmedNonBlank(arr) == SeqFilterNonEmpty([i \in 1..Len(arr) |-> Trim(arr[i])])

normalizeName(s) == ToLowerCase(Trim(s))

Separator == <<"|","|","|">>

\* `${normalizeName(name)}|||${unit}`
shoppingKey(name, unit) == normalizeName(name) \o Separator \o unit

(***************************************************************************)
(* a.localeCompare(b): letters compare without case first, a lower-case    *)
(* letter before its upper-case form at the first difference otherwise;    *)
(* white space and punctuation sort before letters.                        *)
(***************************************************************************)
CharRank(c) ==
  IF c \in WhiteSpace THEN 0
  ELSE IF \E i \in 1..26 : LowerCase[i] = LowerChar(c)
       THEN 1 + (CHOOSE i \in 1..26 : LowerCase[i] = LowerChar(c))
       ELSE 1

CaseRank(c) == IF \E i \in 1..26 : UpperCase[i] = c THEN 1 ELSE 0

RECURSIVE LexCompare(_, _)
LexCompare(a, b) ==
  IF a = <<>> /\ b = <<>> THEN 0
  ELSE IF a = <<>> THEN -1
  ELSE IF b = <<>> THEN 1
  ELSE IF Head(a) < Head(b) THEN -1
  ELSE IF Head(a) > Head(b) THEN 1
  ELSE LexCompare(Tail(a), Tail(b))

localeCompare(a, b) ==
  LET pa == [i \in 1..Len(a) |-> CharRank(a[i])]
      pb == [i \in 1..Len(b) |-> CharRank(b[i])]
      p == LexCompare(pa, pb)
  IN IF p # 0 THEN p
     ELSE LexCompare([i \in 1..Len(a) |-> CaseRank(a[i])],
                     [i \in 1..Len(b) |-> CaseRank(b[i])])

\* stable insertion of entry e into the list sorted by name
RECURSIVE InsertByName(_, _)
InsertByName(sorted, e) ==
  IF sorted = <<>> THEN <<e>>
  ELSE IF localeCompare(e.name, Head(sorted).name) < 0 THEN <<e>> \o sorted
  ELSE <<Head(sorted)>> \o InsertByName(Tail(sorted), e)

\* entries.sort((a, b) => a.name.localeCompare(b.name)), a stable sort
RECURSIVE SortByName(_)
SortByName(entries) ==
  IF entries = <<>> THEN <<>>
  ELSE InsertByName(SortByName(SubSeq(entries, 1, Len(entries) - 1)),
                    entries[Len(entries)])

(***************************************************************************)
(* Map<string, {name, unit, qty}>: a sequence of [key, name, unit, qty]    *)
(* in insertion order, at most one element per key.                        *)
(***************************************************************************)
MapHas(map, key) == \E i \in 1..Len(map) : map[i].key = key

MapIndex(map, key) == CHOOSE i \in 1..Len(map) : map[i].key = key

\* map.set(key, value): a new key is appended, a known key keeps its place
MapSet(map, key, value) ==
  LET e == [key |-> key, name |-> value.name, unit |-> value.unit, qty |-> value.qty]
  IN IF MapHas(map, key)
     THEN [map EXCEPT ![MapIndex(map, key)] = e]
     ELSE Append(map, e)

\* Array.from(map.values())
MapValues(map) ==
  [i \in 1..Len(map) |-> [name |-> map[i].name, unit |-> map[i].unit, qty |-> map[i].qty]]

\* recipes.find((x) => x.id === id); <<>> stands for undefined
FindRecipe(recipes, id) ==
  IF \E i \in 1..Len(recipes) : recipes[i].id = id
  THEN <<recipes[CHOOSE i \in 1..Len(recipes) :
                   recipes[i].id = id /\ \A j \in 1..(i - 1) : recipes[j].id # id]>>
  ELSE <<>>

\* the body of the loop over r.ingredients in groupShoppingList
GroupIngredient(map, ing, pantrySet) ==
  LET nameNorm == normalizeName(ing.name)
      unitNorm == Trim(ing.unit)
      key == nameNorm \o Separator \o unitNorm
  IN IF nameNorm = <<>> THEN map
     ELSE IF nameNorm \in pantrySet THEN map
     ELSE IF MapHas(map, key)
          THEN [map EXCEPT ![MapIndex(map, key)].qty = @ + ing.qty]
          ELSE MapSet(map, key, [name |-> Trim(ing.name), unit |-> unitNorm, qty |-> ing.qty])

RECURSIVE GroupIngredients(_, _, _)
GroupIngredients(map, ings, pantrySet) ==
  IF ings = <<>> THEN map
  ELSE GroupIngredients(GroupIngredient(map, Head(ings), pantrySet), Tail(ings), pantrySet)

RECURSIVE GroupPicked(_, _, _, _)
GroupPicked(map, recipes, picked, pantrySet) ==
  IF picked = <<>> THEN map
  ELSE LET r == FindRecipe(recipes, Head(picked).recipeId)
       IN IF r = <<>>
          THEN GroupPicked(map, recipes, Tail(picked), pantrySet)
          ELSE GroupPicked(GroupIngredients(map, r[1].ingredients, pantrySet),
                           recipes, Tail(picked), pantrySet)

groupShoppingList(recipes, picked, pantry) ==
  LET pantrySet == {normalizeName(pantry[i]) : i \in 1..Len(pantry)} \ {<<>>}
  IN SortByName(MapValues(GroupPicked(<<>>, recipes, picked, pantrySet)))

RECURSIVE MergeBase(_, _)
MergeBase(map, base) ==
  IF base = <<>> THEN map
  ELSE MergeBase(MapSet(map, shoppingKey(Head(base).name, Head(base).unit), Head(base)),
                 Tail(base))

\* a loop body that keys an extra by its trimmed name as typed
MergeExtraKeyedAsTyped(map, raw) ==
  LET name == Trim(raw)
      key == name \o Separator
  IN IF name = <<>> THEN map
     ELSE IF MapHas(map, key)
          THEN [map EXCEPT ![MapIndex(map, key)].qty = @ + 1]
          ELSE MapSet(map, key, [name |-> name, unit |-> <<>>, qty |-> 1])

\* the body of the loop over extras in mergeExtrasIntoShoppingList
MergeExtra(map, raw) ==
  LET name == Trim(raw)
      key == normalizeName(name) \o Separator
  IN IF name = <<>> THEN map
     ELSE IF MapHas(map, key)
          THEN [map EXCEPT ![MapIndex(map, key)].qty = @ + 1]
          ELSE MapSet(map, key, [name |-> name, unit |-> <<>>, qty |-> 1])

RECURSIVE MergeExtras(_, _)
MergeExtras(map, extras) ==
  IF extras = <<>> THEN map
  ELSE MergeExtras(MergeExtra(map, Head(extras)), Tail(extras))

mergeExtrasIntoShoppingList(base, extras) ==
  SortByName(MapValues(MergeExtras(MergeBase(<<>>, base), extras)))

(***************************************************************************)
(* The same two functions with their objects in memory: heap is the        *)
(* sequence of the objects {name, unit, qty} there are, a reference is an  *)
(* index of it, and the Map holds references ([key, ref]).                 *)
(***************************************************************************)
\* an object literal: a new object, its reference
HeapNew(heap, obj) == [heap |-> Append(heap, obj), ref |-> Len(heap) + 1]

\* in place of { ...it }, it itself
SpreadShares(heap, ref) == [heap |-> heap, ref |-> ref]

\* { ...it }: a new object with the fields of it
Spread(heap, ref) == HeapNew(heap, heap[ref])

RefMapSet(map, key, ref) ==
  IF MapHas(map, key)
  THEN [map EXCEPT ![MapIndex(map, key)] = [key |-> key, ref |-> ref]]
  ELSE Append(map, [key |-> key, ref |-> ref])

\* existing.qty += n
AddQty(heap, ref, n) == [heap EXCEPT ![ref].qty = @ + n]

\* Array.from(map.values()).sort(...) as references
SortedRefs(heap, map) ==
  LET byName == SortByName([i \in 1..Len(map) |->
                              [name |-> heap[map[i].ref].name, ref |-> map[i].ref]])
  IN [i \in 1..Len(byName) |-> byName[i].ref]

\* the objects the references point to
Deref(heap, refs) ==
  [i \in 1..Len(refs) |->
     [name |-> heap[refs[i]].name, unit |-> heap[refs[i]].unit, qty |-> heap[refs[i]].qty]]

\* the ingredient objects of the recipes, in order
RECURSIVE AllIngredients(_)
AllIngredients(recipes) ==
  IF recipes = <<>> THEN <<>>
  ELSE Head(recipes).ingredients \o AllIngredients(Tail(recipes))

\* the recipes with references to their ingredient objects in
\* AllIngredients(recipes)
RefRecipes(recipes) ==
  [i \in 1..Len(recipes) |->
     [recipes[i] EXCEPT !.ingredients =
        [j \in 1..Len(recipes[i].ingredients) |->
           Len(AllIngredients(SubSeq(recipes, 1, i - 1))) + j]]]

\* the body of the loop over r.ingredients; m is [heap, map]
HeapGroupIngredient(m, ingRef, pantrySet) ==
  LET ing == m.heap[ingRef]
      nameNorm == normalizeName(ing.name)
      unitNorm == Trim(ing.unit)
      key == nameNorm \o Separator \o unitNorm
      new == HeapNew(m.heap, [name |-> Trim(ing.name), unit |-> unitNorm, qty |-> ing.qty])
  IN IF nameNorm = <<>> THEN m
     ELSE IF nameNorm \in pantrySet THEN m
     ELSE IF MapHas(m.map, key)
          THEN [m EXCEPT !.heap = AddQty(@, m.map[MapIndex(m.map, key)].ref, ing.qty)]
          ELSE [heap |-> new.heap, map |-> RefMapSet(m.map, key, new.ref)]

RECURSIVE HeapGroupIngredients(_, _, _)
HeapGroupIngredients(m, ingRefs, pantrySet) ==
  IF ingRefs = <<>> THEN m
  ELSE HeapGroupIngredients(HeapGroupIngredient(m, Head(ingRefs), pantrySet),
                            Tail(ingRefs), pantrySet)

RECURSIVE HeapGroupPicked(_, _, _, _)
HeapGroupPicked(m, refRecipes, picked, pantrySet) ==
  IF picked = <<>> THEN m
  ELSE LET r == FindRecipe(refRecipes, Head(picked).recipeId)
       IN IF r = <<>>
          THEN HeapGroupPicked(m, refRecipes, Tail(picked), pantrySet)
          ELSE HeapGroupPicked(HeapGroupIngredients(m, r[1].ingredients, pantrySet),
                               refRecipes, Tail(picked), pantrySet)

\* groupShoppingList: the memory afterwards and the returned array
HeapGroupShoppingList(heap, refRecipes, picked, pantry) ==
  LET pantrySet == {normalizeName(pantry[i]) : i \in 1..Len(pantry)} \ {<<>>}
      m == HeapGroupPicked([heap |-> heap, map |-> <<>>], refRecipes, picked, pantrySet)
  IN [heap |-> m.heap, out |-> SortedRefs(m.heap, m.map)]

RECURSIVE HeapMergeBase(_, _)
HeapMergeBase(m, baseRefs) ==
  IF baseRefs = <<>> THEN m
  ELSE LET it == m.heap[Head(baseRefs)]
           copy == Spread(m.heap, Head(baseRefs))
       IN HeapMergeBase([heap |-> copy.heap,
                         map |-> RefMapSet(m.map, shoppingKey(it.name, it.unit), copy.ref)],
                        Tail(baseRefs))

\* the body of the loop over extras
HeapMergeExtra(m, raw) ==
  LET name == Trim(raw)
      key == normalizeName(name) \o Separator
      new == HeapNew(m.heap, [name |-> name, unit |-> <<>>, qty |-> 1])
  IN IF name = <<>> THEN m
     ELSE IF MapHas(m.map, key)
          THEN [m EXCEPT !.heap = AddQty(@, m.map[MapIndex(m.map, key)].ref, 1)]
          ELSE [heap |-> new.heap, map |-> RefMapSet(m.map, key, new.ref)]

RECURSIVE HeapMergeExtras(_, _)
HeapMergeExtras(m, extras) ==
  IF extras = <<>> THEN m
  ELSE HeapMergeExtras(HeapMergeExtra(m, Head(extras)), Tail(extras))

\* mergeExtrasIntoShoppingList: the memory afterwards and the returned array
HeapMergeExtrasIntoShoppingList(heap, baseRefs, extras) ==
  LET m == HeapMergeExtras(HeapMergeBase([heap |-> heap, map |-> <<>>], baseRefs), extras)
  IN [heap |-> m.heap, out |-> SortedRefs(m.heap, m.map)]

RECURSIVE FilterVisible(_, _)
\* shoppingList.filter((it) => !hiddenSet.has(key of it))
FilterVisible(list, hiddenSet) ==
  IF list = <<>> THEN <<>>
  ELSE IF shoppingKey(Head(list).name, Head(list).unit) \in hiddenSet
       THEN FilterVisible(Tail(list), hiddenSet)
       ELSE <<Head(list)>> \o FilterVisible(Tail(list), hiddenSet)

(***************************************************************************)
(* The values the Home component derives from its state on every render.   *)
(* NullState is the null of useState<AppState | null>(null).               *)
(***************************************************************************)
NullState == [null |-> TRUE]

\* const pantry = useMemo(...)
PantryOf(st) ==
  IF st = NullState THEN <<>> ELSE TrimmedNonBlank(SplitLines(st.pantryText))

\* const shoppingList = useMemo(...)
ShoppingListOf(st, items) ==
  IF st = NullState THEN <<>>
  ELSE mergeExtrasIntoShoppingList(
         groupShoppingList(st.recipes, st.picked, PantryOf(st)),
         TrimmedNonBlank(items))

\* const hiddenSet = useMemo(...)
HiddenSetOf(st) ==
  IF st = NullState THEN {}
  ELSE {st.hiddenShoppingKeys[i] : i \in 1..Len(st.hiddenShoppingKeys)}

\* const visibleShoppingList = useMemo(...)
VisibleShoppingListOf(st, items) ==
  FilterVisible(ShoppingListOf(st, items), HiddenSetOf(st))

(***************************************************************************)
(* Words used as inputs                                                    *)
(***************************************************************************)
sOnion == <<"o","n","i","o","n">>
sRice == <<"R","i","c","e">>
sSoup == <<"S","o","u","p">>
sPilaf == <<"P","i","l","a","f">>
sPcs == <<"p","c","s">>
sG == <<"g">>
sSugar == <<"S","u","g","a","r">>
sCoffee == <<"C","o","f","f","e","e">>
sCake == <<"C","a","k","e">>
sTea == <<"T","e","a">>
\* "salt\npepper\nolive oil"
sDefaultPantry == <<"s","a","l","t",NL,"p","e","p","p","e","r",NL,
                    "o","l","i","v","e"," ","o","i","l">>

(***************************************************************************)
(* Bounds of the model                                                     *)
(***************************************************************************)
\* updates of the document or of the extras rows made through the main
\* page in one run
MaxEdits == 2
\* save requests in flight at the same time
MaxInFlight == 1
\* login() calls in progress at the same time
MaxLogins == 1

\* the buttons "Valitse 1..5" call randomPick(n); 0 is the call the
\* specification's "picking 0 recipes" speaks of
PickButtons == 5
PickArgs == 0..PickButtons

(***************************************************************************)
(* State                                                                   *)
(***************************************************************************)
VARIABLES
  mounted,       \* the component has been mounted and its effects have run
  authed,        \* useState<boolean | null>: "null", "true", "false"
  state,         \* useState<AppState | null>
  extraItems,    \* useState<string[]>
  extrasReady,   \* useRef(false)
  hasLoaded,     \* useRef(false)
  authError,     \* useState<string | null>: "null" or the message
  saveTimer,     \* saveTimer.current: 0 for null, else a timer id
  saveCleanup,   \* the save effect's last run returned its cleanup function
  timers,        \* the browser's pending timeouts set by the save effect
  mountLoad,     \* the load of the initial effect: "idle", "sent", "done"
  logins,        \* login() calls in progress, each at an await
  logoutSent,    \* a logout() call is awaiting its fetch
  saveReqs,      \* bodies of the save requests in flight
  kv,            \* the document store behind /api/state
  cookie,        \* the browser holds a valid session cookie
  uidCount,      \* uid() calls so far
  edits,         \* history: updates made through the main page so far
  everLoaded,    \* history: some load has succeeded
  lastOp,        \* history: the last handler that updated (randomPick with n,
                 \* restoreShoppingList with 1 when it follows a hide)
  exchange       \* the last request /api/state got from any client, with its
                 \* response

vars == <<mounted, authed, state, extraItems, extrasReady, hasLoaded, authError,
          saveTimer, saveCleanup, timers, mountLoad, logins, logoutSent,
          saveReqs, kv, cookie, uidCount, edits, everLoaded, lastOp, exchange>>

Op(name, arg) == [op |-> name, arg |-> arg]

\* no request has reached /api/state
NoExchange == [method |-> "none"]

(***************************************************************************)
(* The server: src/src/app/api/state/route.ts, api/login/route.ts          *)
(***************************************************************************)
KvEmpty == [empty |-> TRUE]

DEFAULT_STATE == [recipes |-> <<>>, pantryText |-> sDefaultPantry, picked |-> <<>>]

\* GET /api/state
StateGET(session, store) ==
  IF ~session THEN [status |-> 401, body |-> NullState]
  ELSE [status |-> 200, body |-> IF store = KvEmpty THEN DEFAULT_STATE ELSE store]

\* POST /api/state: the response status and the store afterwards
StatePOST(session, store, body) ==
  IF ~session THEN [status |-> 401, kv |-> store]
  ELSE [status |-> 200, kv |-> body]

\* the cookie header of a request: no mp_session cookie, or its value
\* split at the first two dots
NoCookie == [present |-> FALSE]
RawCookie(value, sig) == [present |-> TRUE, value |-> value, sig |-> sig]

\* crypto.createHmac("sha256", secret).update(value).digest("hex")
Hmac(secret, value) == <<"hmac", secret, value>>

\* sign(value) where COOKIE_SECRET is secret, "unset" when the deployment
\* has none: the digest, or <<"throws">>
sign(secret, value) == IF secret = "unset" THEN <<"throws">> ELSE Hmac(secret, value)

\* a verifySessionCookie that never looks at the signature
verifySessionCookieUnsigned(raw, secret) ==
  IF ~raw.present THEN "false"
  ELSE IF raw.value = "" \/ raw.sig = <<>> THEN "false"
  ELSE IF raw.value # "ok" THEN "false"
  ELSE "true"

\* verifySessionCookie(raw): "true", "false", or "throws" when sign throws
verifySessionCookie(raw, secret) ==
  IF ~raw.present THEN "false"
  ELSE IF raw.value = "" \/ raw.sig = <<>> THEN "false"
  ELSE IF raw.value # "ok" THEN "false"
  ELSE IF sign(secret, raw.value) = <<"throws">> THEN "throws"
  ELSE IF sign(secret, raw.value) = raw.sig THEN "true" ELSE "false"

\* the route handler GET of /api/state as the framework runs it: an
\* exception that leaves the handler is answered with status 500
RouteGET(raw, secret, store) ==
  IF verifySessionCookie(raw, secret) = "throws" THEN [status |-> 500, body |-> NullState]
  ELSE StateGET(verifySessionCookie(raw, secret) = "true", store)

\* the route handler POST of /api/state as the framework runs it
RoutePOST(raw, secret, store, body) ==
  IF verifySessionCookie(raw, secret) = "throws" THEN [status |-> 500, kv |-> store]
  ELSE StatePOST(verifySessionCookie(raw, secret) = "true", store, body)

\* POST /api/login; env is the deployment: "ok", or "unset" when
\* APP_PASSWORD is not set
LoginPOST(pw, env) ==
  IF env = "unset" THEN [status |-> 500, error |-> "APP_PASSWORD not set", cookie |-> FALSE]
  ELSE IF pw # "right" THEN [status |-> 401, error |-> "Wrong password", cookie |-> FALSE]
  ELSE [status |-> 200, error |-> "null", cookie |-> TRUE]

\* POST /api/logout: whether the session cookie is still valid afterwards
LogoutPOST(session) == FALSE

(***************************************************************************)
(* The client: effects                                                     *)
(***************************************************************************)
\* a clearTimeout that cancels nothing
ClearTimeoutNothing(ts, id) == ts

\* window.clearTimeout(id)
ClearTimeout(ts, id) == {t \in ts : t.id # id}

\* the id window.setTimeout returns: one no pending timeout has
FreshTimerId(ts) ==
  CHOOSE n \in 1..(Cardinality(ts) + 1) :
    /\ \A t \in ts : t.id # n
    /\ \A m \in 1..(n - 1) : \E t \in ts : t.id = m

\* the save effect without its two early returns
SaveEffectUnguarded(st, loaded) == TRUE

\* the two early returns of the save effect, negated
SaveEffectGuard(st, loaded) == st # NullState /\ loaded

\* One run of the debounced save effect after a render in which state
\* changed: the cleanup of the previous run, then the body.
\* eff is [timers, saveTimer, saveCleanup].
SaveEffect(st, loaded, eff) ==
  LET cleaned == IF eff.saveCleanup /\ eff.saveTimer # 0
                 THEN ClearTimeout(eff.timers, eff.saveTimer)
                 ELSE eff.timers
  IN IF ~SaveEffectGuard(st, loaded)
     THEN [timers |-> cleaned, saveTimer |-> eff.saveTimer, saveCleanup |-> FALSE]
     ELSE LET cleared == IF eff.saveTimer # 0
                         THEN ClearTimeout(cleaned, eff.saveTimer)
                         ELSE cleaned
              id == FreshTimerId(cleared)
          IN [timers |-> cleared \cup {[id |-> id, body |-> st]},
              saveTimer |-> id, saveCleanup |-> TRUE]

\* a join of the rows as they are, the blank ones included
JoinedExtrasRaw(items) == JoinLines(items)

\* extraItems.map(trim).filter(Boolean).join("\n")
JoinedExtras(items) == JoinLines(TrimmedNonBlank(items))

\* the extras effect calls setState
ExtrasSyncWrites(st, items, ready) ==
  st # NullState /\ ready /\ st.pantryText # JoinedExtras(items)

\* The renders that follow a batch of updates, with their effects, up to
\* the render that schedules nothing more.  st and items are the values
\* after the batch; stSet and itemsSet say whether setState and
\* setExtraItems were called; ready and loaded are the refs.
Render(st, stSet, items, itemsSet, ready, loaded, eff) ==
  LET e1 == IF stSet THEN SaveEffect(st, loaded, eff) ELSE eff
      sync == itemsSet /\ ExtrasSyncWrites(st, items, ready)
      st2 == IF sync THEN [st EXCEPT !.pantryText = JoinedExtras(items)] ELSE st
      e2 == IF sync THEN SaveEffect(st2, loaded, e1) ELSE e1
  IN [state |-> st2, timers |-> e2.timers, saveTimer |-> e2.saveTimer,
      saveCleanup |-> e2.saveCleanup]

Eff == [timers |-> timers, saveTimer |-> saveTimer, saveCleanup |-> saveCleanup]

\* applies what Render returns
Commit(r) ==
  /\ state' = r.state
  /\ timers' = r.timers
  /\ saveTimer' = r.saveTimer
  /\ saveCleanup' = r.saveCleanup

(***************************************************************************)
(* The client: loading                                                     *)
(***************************************************************************)
\* a migration that resets hiddenShoppingKeys on every load
MigrateResetsHidden(s) ==
  [recipes |-> s.recipes, pantryText |-> s.pantryText, picked |-> s.picked,
   hiddenShoppingKeys |-> <<>>]

\* { ...s, hiddenShoppingKeys: s.hiddenShoppingKeys ?? [] }
Migrate(s) ==
  [recipes |-> s.recipes, pantryText |-> s.pantryText, picked |-> s.picked,
   hiddenShoppingKeys |-> IF "hiddenShoppingKeys" \in DOMAIN s
                          THEN s.hiddenShoppingKeys ELSE <<>>]

\* [...parsed, ""]
ParseExtras(pantryText) == Append(TrimmedNonBlank(SplitLines(pantryText)), <<>>)

\* a load that calls setAuthed(true) and setExtraItems but never setState
LoadedWithoutDocument(s) ==
  LET items == ParseExtras(Migrate(s).pantryText)
  IN /\ hasLoaded' = TRUE
     /\ extrasReady' = TRUE
     /\ everLoaded' = TRUE
     /\ authed' = "true"
     /\ extraItems' = items
     /\ Commit(Render(state, FALSE, items, TRUE, TRUE, TRUE, Eff))

\* what both the initial effect and login() do with a loaded document
Loaded(s) ==
  LET migrated == Migrate(s)
      items == ParseExtras(migrated.pantryText)
  IN /\ hasLoaded' = TRUE
     /\ extrasReady' = TRUE
     /\ everLoaded' = TRUE
     /\ IF mounted
        THEN /\ authed' = "true"
             /\ extraItems' = items
             /\ Commit(Render(migrated, TRUE, items, TRUE, TRUE, TRUE, Eff))
        ELSE \* the component is gone: its setters do nothing
             UNCHANGED <<authed, extraItems, state, timers, saveTimer, saveCleanup>>

\* useEffect(..., []) and the first run of the other effects
Mount ==
  /\ ~mounted
  /\ mounted' = TRUE
  /\ mountLoad' = "sent"
  /\ Commit(Render(state, TRUE, extraItems, TRUE, extrasReady, hasLoaded, Eff))
  /\ UNCHANGED <<lastOp, exchange>>
  /\ UNCHANGED <<authed, extraItems, extrasReady, hasLoaded, authError, logins,
                 logoutSent, saveReqs, kv, cookie, uidCount, edits, everLoaded>>

MountLoadOk ==
  /\ mountLoad = "sent"
  /\ StateGET(cookie, kv).status = 200
  /\ mountLoad' = "done"
  /\ Loaded(StateGET(cookie, kv).body)
  /\ UNCHANGED <<lastOp, exchange>>
  /\ UNCHANGED <<mounted, authError, logins, logoutSent, saveReqs, kv, cookie, uidCount, edits>>

\* a catch that demotes without ever setting the error
LoadCatchSilent(message) ==
  /\ extrasReady' = FALSE
  /\ authed' = "false"
  /\ authError' = authError

\* catch (e) of the initial effect: "UNAUTH" or anything else
LoadCatch(message) ==
  /\ extrasReady' = FALSE
  /\ authed' = "false"
  /\ authError' = IF message = "UNAUTH" THEN authError ELSE "Could not load data."

MountLoad401 ==
  /\ mountLoad = "sent"
  /\ StateGET(cookie, kv).status = 401
  /\ mountLoad' = "done"
  /\ LoadCatch("UNAUTH")
  /\ UNCHANGED <<lastOp, exchange>>
  /\ UNCHANGED <<mounted, state, extraItems, hasLoaded, saveTimer, saveCleanup, timers,
                 logins, logoutSent, saveReqs, kv, cookie, uidCount, edits, everLoaded>>

\* the fetch rejects, the status is another non-2xx, or the body is no JSON
MountLoadFail ==
  /\ mountLoad = "sent"
  /\ mountLoad' = "done"
  /\ LoadCatch("Failed to load")
  /\ UNCHANGED <<lastOp, exchange>>
  /\ UNCHANGED <<mounted, state, extraItems, hasLoaded, saveTimer, saveCleanup, timers,
                 logins, logoutSent, saveReqs, kv, cookie, uidCount, edits, everLoaded>>

(***************************************************************************)
(* The client: login and logout                                            *)
(***************************************************************************)
\* a login that shows its own text whatever the server said
LoginErrorMessageGeneric(error) == "Login failed"

\* data?.error ?? "Login failed"; "undefined" when the body had no error
LoginErrorMessage(error) == IF error = "undefined" THEN "Login failed" ELSE error

RemoveAt(seq, i) == SubSeq(seq, 1, i - 1) \o SubSeq(seq, i + 1, Len(seq))

\* the login page is what is rendered
UILogin == mounted /\ authed = "false"

\* the main page is what is rendered
UIMain == mounted /\ authed = "true" /\ state # NullState

\* login() up to its first await; pw is the password typed
Login(pw) ==
  /\ UILogin
  /\ Len(logins) < MaxLogins
  /\ authError' = "null"
  /\ logins' = Append(logins, [at |-> "login", pw |-> pw])
  /\ UNCHANGED <<lastOp, exchange>>
  /\ UNCHANGED <<mounted, authed, state, extraItems, extrasReady, hasLoaded, saveTimer,
                 saveCleanup, timers, mountLoad, logoutSent, saveReqs, kv, cookie,
                 uidCount, edits, everLoaded>>

\* the servers a login request can meet: the route with APP_PASSWORD set
\* ("ok") or not set ("unset"), or something that answers a non-2xx
\* status with a body that is no JSON ("nobody")
LoginEnvs == {"ok", "unset", "nobody"}

\* the error field of the parsed body: res.json().catch(() => ({}))
LoginResponseError(pw, env) ==
  IF env = "nobody" THEN "undefined" ELSE LoginPOST(pw, env).error

\* !res.ok in login(), the request having met env
LoginRejectedBy(i, env) ==
  /\ i \in 1..Len(logins) /\ logins[i].at = "login"
  /\ env = "nobody" \/ LoginPOST(logins[i].pw, env).status # 200
  /\ authError' = LoginErrorMessage(LoginResponseError(logins[i].pw, env))
  /\ logins' = RemoveAt(logins, i)
  /\ UNCHANGED <<lastOp, exchange>>
  /\ UNCHANGED <<mounted, authed, state, extraItems, extrasReady, hasLoaded, saveTimer,
                 saveCleanup, timers, mountLoad, logoutSent, saveReqs, kv, cookie,
                 uidCount, edits, everLoaded>>

LoginRejected(i) == \E env \in LoginEnvs : LoginRejectedBy(i, env)

\* res.ok: the cookie is set and login() goes on to await loadState()
LoginAccepted(i) ==
  /\ i \in 1..Len(logins) /\ logins[i].at = "login"
  /\ LoginPOST(logins[i].pw, "ok").status = 200
  /\ cookie' = LoginPOST(logins[i].pw, "ok").cookie
  /\ logins' = [logins EXCEPT ![i].at = "load"]
  /\ UNCHANGED <<lastOp, exchange>>
  /\ UNCHANGED <<mounted, authed, state, extraItems, extrasReady, hasLoaded, authError,
                 saveTimer, saveCleanup, timers, mountLoad, logoutSent, saveReqs, kv,
                 uidCount, edits, everLoaded>>

LoginLoadOk(i) ==
  /\ i \in 1..Len(logins) /\ logins[i].at = "load"
  /\ StateGET(cookie, kv).status = 200
  /\ Loaded(StateGET(cookie, kv).body)
  /\ logins' = RemoveAt(logins, i)
  /\ UNCHANGED <<lastOp, exchange>>
  /\ UNCHANGED <<mounted, authError, mountLoad, logoutSent, saveReqs, kv, cookie, uidCount, edits>>

\* loadState() throws "UNAUTH" inside login(), which catches nothing
LoginLoad401(i) ==
  /\ i \in 1..Len(logins) /\ logins[i].at = "load"
  /\ StateGET(cookie, kv).status = 401
  /\ logins' = RemoveAt(logins, i)
  /\ UNCHANGED <<lastOp, exchange>>
  /\ UNCHANGED <<mounted, authed, state, extraItems, extrasReady, hasLoaded, authError,
                 saveTimer, saveCleanup, timers, mountLoad, logoutSent, saveReqs, kv,
                 cookie, uidCount, edits, everLoaded>>

\* loadState() throws "Failed to load" (or the fetch rejects) inside login()
LoginLoadFail(i) ==
  /\ i \in 1..Len(logins) /\ logins[i].at = "load"
  /\ logins' = RemoveAt(logins, i)
  /\ UNCHANGED <<lastOp, exchange>>
  /\ UNCHANGED <<mounted, authed, state, extraItems, extrasReady, hasLoaded, authError,
                 saveTimer, saveCleanup, timers, mountLoad, logoutSent, saveReqs, kv,
                 cookie, uidCount, edits, everLoaded>>

\* logout() up to its await
Logout ==
  /\ UIMain
  /\ ~logoutSent
  /\ logoutSent' = TRUE
  /\ UNCHANGED <<lastOp, exchange>>
  /\ UNCHANGED <<mounted, authed, state, extraItems, extrasReady, hasLoaded, authError,
                 saveTimer, saveCleanup, timers, mountLoad, logins, saveReqs, kv, cookie,
                 uidCount, edits, everLoaded>>

\* a logout that forgets setState(null)
LogoutDoneKeepsDocument ==
  /\ logoutSent
  /\ logoutSent' = FALSE
  /\ cookie' = LogoutPOST(cookie)
  /\ authed' = "false"
  /\ extraItems' = <<<<>>>>
  /\ extrasReady' = FALSE
  /\ hasLoaded' = FALSE
  /\ Commit(Render(state, FALSE, <<<<>>>>, TRUE, FALSE, FALSE, Eff))
  /\ UNCHANGED <<lastOp, exchange>>
  /\ UNCHANGED <<mounted, authError, mountLoad, logins, saveReqs, kv, uidCount, edits, everLoaded>>

\* the fetch of logout() resolves and the rest of logout() runs
LogoutDone ==
  /\ logoutSent
  /\ logoutSent' = FALSE
  /\ cookie' = LogoutPOST(cookie)
  /\ extrasReady' = FALSE
  /\ hasLoaded' = FALSE
  /\ IF mounted
     THEN /\ authed' = "false"
          /\ extraItems' = <<<<>>>>
          /\ Commit(Render(NullState, TRUE, <<<<>>>>, TRUE, FALSE, FALSE, Eff))
     ELSE \* the component is gone: its setters do nothing
          UNCHANGED <<authed, extraItems, state, timers, saveTimer, saveCleanup>>
  /\ UNCHANGED <<lastOp, exchange>>
  /\ UNCHANGED <<mounted, authError, mountLoad, logins, saveReqs, kv, uidCount, edits, everLoaded>>

\* The component is torn down: React runs the cleanup the last run of
\* each effect returned; for the save effect that is
\* if (saveTimer.current) window.clearTimeout(saveTimer.current).
Unmount ==
  /\ mounted
  /\ mounted' = FALSE
  /\ timers' = IF saveCleanup /\ saveTimer # 0
               THEN ClearTimeout(timers, saveTimer)
               ELSE timers
  /\ saveCleanup' = FALSE
  /\ UNCHANGED <<lastOp, exchange>>
  /\ UNCHANGED <<authed, state, extraItems, extrasReady, hasLoaded, authError, saveTimer,
                 mountLoad, logins, logoutSent, saveReqs, kv, cookie, uidCount, edits,
                 everLoaded>>

(***************************************************************************)
(* The client: saving                                                      *)
(***************************************************************************)
\* the timer callback of the save effect runs: saveState(state) sends
\* its request; n caps the requests in flight
TimerFireUpTo(n) ==
  /\ Len(saveReqs) < n
  /\ \E t \in timers :
       /\ timers' = timers \ {t}
       /\ saveReqs' = Append(saveReqs, t.body)
  /\ UNCHANGED <<lastOp, exchange>>
  /\ UNCHANGED <<mounted, authed, state, extraItems, extrasReady, hasLoaded, authError,
                 saveTimer, saveCleanup, mountLoad, logins, logoutSent, kv, cookie,
                 uidCount, edits, everLoaded>>

TimerFire == TimerFireUpTo(MaxInFlight)

\* a catch that demotes on every error
SaveCatchDemotes(message, a) == "false"

\* a catch that does nothing
SaveCatchIgnores(message, a) == a

\* .catch((e) => { if (e?.message === "UNAUTH") setAuthed(false); })
SaveCatch(message, a) == IF message = "UNAUTH" THEN "false" ELSE a

SaveOk(i) ==
  /\ i \in 1..Len(saveReqs)
  /\ StatePOST(cookie, kv, saveReqs[i]).status = 200
  /\ kv' = StatePOST(cookie, kv, saveReqs[i]).kv
  /\ saveReqs' = RemoveAt(saveReqs, i)
  /\ UNCHANGED <<lastOp, exchange>>
  /\ UNCHANGED <<mounted, authed, state, extraItems, extrasReady, hasLoaded, authError,
                 saveTimer, saveCleanup, timers, mountLoad, logins, logoutSent, cookie,
                 uidCount, edits, everLoaded>>

Save401(i) ==
  /\ i \in 1..Len(saveReqs)
  /\ StatePOST(cookie, kv, saveReqs[i]).status = 401
  /\ kv' = StatePOST(cookie, kv, saveReqs[i]).kv
  /\ saveReqs' = RemoveAt(saveReqs, i)
  /\ authed' = SaveCatch("UNAUTH", authed)
  /\ UNCHANGED <<lastOp, exchange>>
  /\ UNCHANGED <<mounted, state, extraItems, extrasReady, hasLoaded, authError,
                 saveTimer, saveCleanup, timers, mountLoad, logins, logoutSent, cookie,
                 uidCount, edits, everLoaded>>

\* the fetch rejects or the status is another non-2xx
SaveFail(i) ==
  /\ i \in 1..Len(saveReqs)
  /\ saveReqs' = RemoveAt(saveReqs, i)
  /\ authed' = SaveCatch("Failed to save", authed)
  /\ UNCHANGED <<lastOp, exchange>>
  /\ UNCHANGED <<mounted, state, extraItems, extrasReady, hasLoaded, authError,
                 saveTimer, saveCleanup, timers, mountLoad, logins, logoutSent, kv, cookie,
                 uidCount, edits, everLoaded>>

\* the session cookie runs out (maxAge) or stops verifying
SessionExpire ==
  /\ cookie
  /\ cookie' = FALSE
  /\ UNCHANGED <<lastOp, exchange>>
  /\ UNCHANGED <<mounted, authed, state, extraItems, extrasReady, hasLoaded, authError,
                 saveTimer, saveCleanup, timers, mountLoad, logins, logoutSent, saveReqs,
                 kv, uidCount, edits, everLoaded>>

(***************************************************************************)
(* The client: the handlers of the main page                               *)
(***************************************************************************)
Min(a, b) == IF a < b THEN a ELSE b
Max(a, b) == IF a > b THEN a ELSE b

\* a[i] = a[j] with the other half of the exchange lost
SwapOverwrites(a, i, j) == [a EXCEPT ![i] = a[j]]

\* [a[i], a[j]] = [a[j], a[i]]
Swap(a, i, j) == [a EXCEPT ![i] = a[j], ![j] = a[i]]

\* the loop of shuffle from index i down (1-based), for every value
\* Math.random() can take
RECURSIVE ShuffleFrom(_, _)
ShuffleFrom(a, i) ==
  IF i < 2 THEN {a}
  ELSE UNION {ShuffleFrom(Swap(a, i, j), i - 1) : j \in 1..i}

shuffle(arr) == ShuffleFrom(arr, Len(arr))

\* Math.min(n, state.recipes.length), without the floor of 1
PickCountNoFloor(n, len) == Min(n, len)

\* Math.max(1, Math.min(n, state.recipes.length))
PickCount(n, len) == Max(1, Min(n, len))

\* a randomPick that leaves the hidden keys as they are
RandomPickDocsKeepHidden(st, n) ==
  {[st EXCEPT !.picked = [k \in 1..PickCount(n, Len(st.recipes)) |->
                            [recipeId |-> a[k].id, name |-> a[k].name]]] :
     a \in shuffle(st.recipes)}

\* the documents randomPick(n) can pass to setState; recipes is not empty
RandomPickDocs(st, n) ==
  {[st EXCEPT !.picked = [k \in 1..PickCount(n, Len(st.recipes)) |->
                            [recipeId |-> a[k].id, name |-> a[k].name]],
              !.hiddenShoppingKeys = <<>>] : a \in shuffle(st.recipes)}

\* the documents there can be after randomPick(n), which returns at once
\* when there is no recipe
RandomPickResults(st, n) ==
  IF st.recipes = <<>> THEN {st} ELSE RandomPickDocs(st, n)

RECURSIVE FilterRecipes(_, _)
\* recipes.filter((r) => r.id !== id)
FilterRecipes(recipes, id) ==
  IF recipes = <<>> THEN <<>>
  ELSE IF Head(recipes).id = id THEN FilterRecipes(Tail(recipes), id)
  ELSE <<Head(recipes)>> \o FilterRecipes(Tail(recipes), id)

RECURSIVE FilterPicked(_, _)
\* picked.filter((p) => p.recipeId !== id)
FilterPicked(picked, id) ==
  IF picked = <<>> THEN <<>>
  ELSE IF Head(picked).recipeId = id THEN FilterPicked(Tail(picked), id)
  ELSE <<Head(picked)>> \o FilterPicked(Tail(picked), id)

\* a removeRecipe that leaves picked as it is
RemoveRecipeDocKeepsPicked(st, id) ==
  [st EXCEPT !.recipes = FilterRecipes(st.recipes, id)]

\* the document removeRecipe(id) passes to setState
RemoveRecipeDoc(st, id) ==
  [st EXCEPT !.recipes = FilterRecipes(st.recipes, id),
             !.picked = FilterPicked(st.picked, id)]

\* the document the "Poista" button of a picked meal passes to setState
UnpickDoc(st, id) == [st EXCEPT !.picked = FilterPicked(st.picked, id)]

\* the document the "Tyhjenna" button passes to setState
ClearPickedDoc(st) == [st EXCEPT !.picked = <<>>, !.hiddenShoppingKeys = <<>>]

\* a restore that leaves the hidden keys as they are
RestoreDocKeepsHidden(st) == st

\* the document restoreShoppingList passes to setState
RestoreDoc(st) == [st EXCEPT !.hiddenShoppingKeys = <<>>]

\* a hideShoppingItem that never looks whether the key is there
HideNeverReturnsEarly(st, name, unit) == FALSE

\* current.includes(key) in hideShoppingItem
HideReturnsEarly(st, name, unit) ==
  \E i \in 1..Len(st.hiddenShoppingKeys) :
    st.hiddenShoppingKeys[i] = shoppingKey(name, unit)

\* the document hideShoppingItem(name, unit) passes to setState
HideDoc(st, name, unit) ==
  [st EXCEPT !.hiddenShoppingKeys = Append(@, shoppingKey(name, unit))]

\* A number that is not finite is a row without qty that says which one
\* in nonfinite: "NaN", "Infinity".
NumberIsFinite(i) == "nonfinite" \notin DOMAIN i

\* i.qty > 0, which Infinity is and NaN is not
QtyPositive(i) == IF NumberIsFinite(i) THEN i.qty > 0 ELSE i.nonfinite = "Infinity"

\* (i) => i.name && Number.isFinite(i.qty) && i.qty > 0 && i.unit
KeepsIngredient(i) ==
  i.name # <<>> /\ NumberIsFinite(i) /\ QtyPositive(i) /\ i.unit # <<>>

RECURSIVE FilterIngredients(_)
\* .filter((i) => i.name && Number.isFinite(i.qty) && i.qty > 0 && i.unit)
FilterIngredients(ings) ==
  IF ings = <<>> THEN <<>>
  ELSE IF KeepsIngredient(Head(ings))
       THEN <<Head(ings)>> \o FilterIngredients(Tail(ings))
       ELSE FilterIngredients(Tail(ings))

\* the ingredients addRecipe keeps of the draft rows
DraftIngredients(draft) ==
  FilterIngredients([i \in 1..Len(draft) |->
    [draft[i] EXCEPT !.name = Trim(@), !.unit = Trim(@)]])

\* the recipe form after addRecipe(): recipeName, draftIngredients and
\* formError ("null" or the message); a rejection sets only formError
AddRecipeForm(form) ==
  IF Trim(form.recipeName) = <<>>
  THEN [recipeName |-> form.recipeName, draftIngredients |-> form.draftIngredients,
        formError |-> "Recipe name is required."]
  ELSE IF DraftIngredients(form.draftIngredients) = <<>>
  THEN [recipeName |-> form.recipeName, draftIngredients |-> form.draftIngredients,
        formError |-> "Add at least one ingredient (name, qty > 0, unit)."]
  ELSE [recipeName |-> <<>>, draftIngredients |-> <<[name |-> <<>>, qty |-> 0, unit |-> <<>>]>>,
        formError |-> "null"]

\* addRecipe returns before setState: "Recipe name is required." or
\* "Add at least one ingredient (name, qty > 0, unit)."
AddRecipeRejects(form) ==
  Trim(form.recipeName) = <<>> \/ DraftIngredients(form.draftIngredients) = <<>>

\* the document addRecipe passes to setState; id is what uid() returned
AddRecipeDoc(st, form, id) ==
  [st EXCEPT !.recipes =
     <<[id |-> id, name |-> Trim(form.recipeName),
        ingredients |-> DraftIngredients(form.draftIngredients)]>> \o @]

(***************************************************************************)
(* The recipe form of the earlier revision of the page (lines 813-1180):   *)
(* the ingredients are typed as text, one "name, qty, unit" per line.      *)
(***************************************************************************)
Comma == ","

\* line.split(",")
RECURSIVE SplitCommas(_)
SplitCommas(s) ==
  IF \E i \in 1..Len(s) : s[i] = Comma
  THEN LET k == CHOOSE i \in 1..Len(s) :
                   s[i] = Comma /\ \A j \in 1..(i - 1) : s[j] # Comma
       IN <<SubSeq(s, 1, k - 1)>> \o SplitCommas(SubSeq(s, k + 1, Len(s)))
  ELSE <<s>>

Digits == <<"0", "1", "2", "3", "4", "5", "6", "7", "8", "9">>
IsDigits(s) == s # <<>> /\ \A i \in 1..Len(s) : \E d \in 1..10 : Digits[d] = s[i]

RECURSIVE DigitsValue(_)
DigitsValue(s) ==
  IF s = <<>> THEN 0
  ELSE 10 * DigitsValue(SubSeq(s, 1, Len(s) - 1))
       + (CHOOSE d \in 1..10 : Digits[d] = s[Len(s)]) - 1

\* Number(s) for the strings of the inputs below: "" is 0, digits with or
\* without a sign are their value, "Infinity" is Infinity, any other text
\* is NaN; the result is a row's quantity (qty, or nonfinite)
NumberOf(s) ==
  LET x == Trim(s)
  IN IF x = <<>> THEN [qty |-> 0]
     ELSE IF IsDigits(x) THEN [qty |-> DigitsValue(x)]
     ELSE IF Head(x) = "-" /\ IsDigits(Tail(x)) THEN [qty |-> 0 - DigitsValue(Tail(x))]
     ELSE IF x = <<"I", "n", "f", "i", "n", "i", "t", "y">> THEN [nonfinite |-> "Infinity"]
     ELSE [nonfinite |-> "NaN"]

\* the body of the loop of parseIngredients: the ingredients so far with
\* what the line adds
ParseIngredientLine(ings, line) ==
  LET split == SplitCommas(line)
      parts == [i \in 1..Len(split) |-> Trim(split[i])]
      number == NumberOf(parts[2])
  IN IF Len(parts) < 3 THEN ings
     ELSE IF parts[1] = <<>> \/ ~NumberIsFinite(number) \/ parts[3] = <<>> THEN ings
     ELSE Append(ings, [name |-> parts[1], qty |-> number.qty, unit |-> parts[3]])

RECURSIVE ParseIngredientLines(_, _)
ParseIngredientLines(ings, lines) ==
  IF lines = <<>> THEN ings
  ELSE ParseIngredientLines(ParseIngredientLine(ings, Head(lines)), Tail(lines))

\* parseIngredients(text)
parseIngredients(text) ==
  ParseIngredientLines(<<>>, TrimmedNonBlank(SplitLines(text)))

\* addRecipe of the earlier revision returns before setState
AddRecipeEarlierRejects(form) ==
  Trim(form.recipeName) = <<>> \/ parseIngredients(form.ingredientsText) = <<>>

\* the document addRecipe of the earlier revision passes to setState
AddRecipeEarlierDoc(st, form, id) ==
  [st EXCEPT !.recipes =
     <<[id |-> id, name |-> Trim(form.recipeName),
        ingredients |-> parseIngredients(form.ingredientsText)]>> \o @]

\* the recipe form of the earlier revision after its addRecipe()
AddRecipeEarlierForm(form) ==
  IF AddRecipeEarlierRejects(form) THEN form
  ELSE [recipeName |-> <<>>,
        ingredientsText |-> <<"i","n","g","r","e","d","i","e","n","t",",",
                              " ","1",","," ","p","c","s">>]

\* a handler of the main page called setState(doc)
SetState(doc, op) ==
  /\ edits < MaxEdits
  /\ edits' = edits + 1
  /\ lastOp' = op
  /\ Commit(Render(doc, TRUE, extraItems, FALSE, extrasReady, hasLoaded, Eff))
  /\ UNCHANGED extraItems

\* a handler of the main page called setExtraItems(items)
SetExtraItems(items, op) ==
  /\ edits < MaxEdits
  /\ edits' = edits + 1
  /\ lastOp' = op
  /\ extraItems' = items
  /\ Commit(Render(state, FALSE, items, TRUE, extrasReady, hasLoaded, Eff))

\* a handler of the main page returned without an update
NoUpdate == UNCHANGED <<state, extraItems, timers, saveTimer, saveCleanup, edits, lastOp>>

\* what no handler of the main page touches
MainFrame ==
  UNCHANGED <<mounted, authed, extrasReady, hasLoaded, authError, mountLoad, logins,
              logoutSent, saveReqs, kv, cookie, everLoaded, exchange>>

addRecipe(form) ==
  /\ UIMain
  /\ IF AddRecipeRejects(form)
     THEN NoUpdate /\ UNCHANGED uidCount
     ELSE /\ uidCount' = uidCount + 1
          /\ SetState(AddRecipeDoc(state, form, uidCount + 1), Op("edit", 0))
  /\ MainFrame

\* the confirmed delete button of the i-th recipe
\* addRecipe() of the earlier revision, with form typed into its fields
addRecipeEarlier(form) ==
  /\ UIMain
  /\ IF AddRecipeEarlierRejects(form)
     THEN NoUpdate /\ UNCHANGED uidCount
     ELSE /\ uidCount' = uidCount + 1
          /\ SetState(AddRecipeEarlierDoc(state, form, uidCount + 1), Op("edit", 0))
  /\ MainFrame

removeRecipe(i) ==
  /\ UIMain
  /\ i \in 1..Len(state.recipes)
  /\ SetState(RemoveRecipeDoc(state, state.recipes[i].id), Op("edit", 0))
  /\ MainFrame /\ UNCHANGED uidCount

randomPick(n) ==
  /\ UIMain
  /\ IF state.recipes = <<>>
     THEN NoUpdate
     ELSE \E doc \in RandomPickDocs(state, n) : SetState(doc, Op("randomPick", n))
  /\ MainFrame /\ UNCHANGED uidCount

clearPicked ==
  /\ UIMain
  /\ SetState(ClearPickedDoc(state), Op("edit", 0))
  /\ MainFrame /\ UNCHANGED uidCount

\* the "Poista" button of the i-th picked meal
unpick(i) ==
  /\ UIMain
  /\ i \in 1..Len(state.picked)
  /\ SetState(UnpickDoc(state, state.picked[i].recipeId), Op("edit", 0))
  /\ MainFrame /\ UNCHANGED uidCount

\* the list with its buttons is rendered only while a meal is picked
UIShoppingList == UIMain /\ state.picked # <<>>

\* the confirmed "Poista" button of the i-th visible entry
hideShoppingItem(i) ==
  /\ UIShoppingList
  /\ i \in 1..Len(VisibleShoppingListOf(state, extraItems))
  /\ LET it == VisibleShoppingListOf(state, extraItems)[i]
     IN IF HideReturnsEarly(state, it.name, it.unit)
        THEN NoUpdate
        ELSE SetState(HideDoc(state, it.name, it.unit), Op("hideShoppingItem", 0))
  /\ MainFrame /\ UNCHANGED uidCount

restoreShoppingList ==
  /\ UIShoppingList
  /\ SetState(RestoreDoc(state),
              IF lastOp.op = "hideShoppingItem"
              THEN Op("restoreShoppingList", 1) ELSE Op("restoreShoppingList", 0))
  /\ MainFrame /\ UNCHANGED uidCount

\* prev.map((x, i) => (i === index ? value : x))
updateExtraItemRow(i, value) ==
  /\ UIMain
  /\ i \in 1..Len(extraItems)
  /\ extraItems[i] # value
  /\ SetExtraItems([extraItems EXCEPT ![i] = value], Op("edit", 0))
  /\ MainFrame /\ UNCHANGED uidCount

\* onKeyDown with "Enter" in row i
ExtraEnterItems(items, i) ==
  LET next == [items EXCEPT ![i] = Trim(items[i])]
  IN IF i = Len(next) THEN Append(next, <<>>) ELSE next

extraEnter(i) ==
  /\ UIMain
  /\ i \in 1..Len(extraItems)
  /\ IF Trim(extraItems[i]) = <<>>
     THEN NoUpdate
     ELSE SetExtraItems(ExtraEnterItems(extraItems, i), Op("edit", 0))
  /\ MainFrame /\ UNCHANGED uidCount

\* the updater of removeExtraItemRow(index)
RemoveExtraItems(items, i) ==
  LET next == RemoveAt(items, i)
  IN IF next = <<>> THEN <<<<>>>>
     ELSE IF Trim(next[Len(next)]) # <<>> THEN Append(next, <<>>)
     ELSE next

\* the delete button is not rendered for the last row while it is blank
removeExtraItemRow(i) ==
  /\ UIMain
  /\ i \in 1..Len(extraItems)
  /\ ~(i = Len(extraItems) /\ Trim(extraItems[i]) = <<>>)
  /\ SetExtraItems(RemoveExtraItems(extraItems, i), Op("edit", 0))
  /\ MainFrame /\ UNCHANGED uidCount

(***************************************************************************)
(* Inputs                                                                  *)
(***************************************************************************)
Ing(name, qty, unit) == [name |-> name, qty |-> qty, unit |-> unit]

\* the blank row the ingredient editor starts with
BlankRow == Ing(<<>>, 0, <<>>)

FormSoup == [recipeName |-> sSoup, draftIngredients |-> <<Ing(sOnion, 2, sPcs)>>]
FormPilaf == [recipeName |-> <<" ">> \o sPilaf,
              draftIngredients |-> <<Ing(sRice \o <<" ">>, 100, sG), BlankRow>>]
FormNoName == [recipeName |-> <<" ">>, draftIngredients |-> <<Ing(sOnion, 2, sPcs)>>]
FormNoRows == [recipeName |-> sSoup, draftIngredients |-> <<BlankRow, Ing(sRice, 0, sG)>>]
\* a row whose quantity is Infinity, one with NaN, one with -1, one good
NonFiniteRow(name, unit, which) == [name |-> name, unit |-> unit, nonfinite |-> which]
FormOddRows == [recipeName |-> sPilaf,
                draftIngredients |-> <<NonFiniteRow(sRice, sG, "Infinity"),
                                       NonFiniteRow(sRice, sG, "NaN"),
                                       Ing(sOnion, -1, sPcs), Ing(sOnion, 2, sPcs)>>]
FormOnlyOddRows == [recipeName |-> sPilaf,
                    draftIngredients |-> <<NonFiniteRow(sRice, sG, "Infinity"),
                                           Ing(sOnion, -1, sPcs)>>]

Recipe(id, name, ingredients) == [id |-> id, name |-> name, ingredients |-> ingredients]
Meal(id, name) == [recipeId |-> id, name |-> name]

\* a document saved by the earlier revision of the page (lines 813-1180):
\* no hiddenShoppingKeys, the pantry text as typed into its textarea
LegacyState ==
  [recipes |-> <<Recipe(101, sSoup, <<Ing(sOnion, 2, sPcs)>>)>>,
   pantryText |-> sRice \o <<NL>>,
   picked |-> <<Meal(101, sSoup)>>]

\* two recipes with Rice 100 g, both picked, and onion as an extras row
RiceState ==
  [recipes |-> <<Recipe(102, sPilaf, <<Ing(sRice, 100, sG)>>),
                 Recipe(101, sSoup, <<Ing(sOnion, 2, sPcs), Ing(sRice, 100, sG)>>)>>,
   pantryText |-> sOnion,
   picked |-> <<Meal(101, sSoup), Meal(102, sPilaf)>>,
   hiddenShoppingKeys |-> <<>>]

\* ingredients whose name or unit holds the text "|||"
SeparatorState ==
  [recipes |-> <<Recipe(101, sSoup,
                   <<Ing(<<"a">>, 1, Separator \o <<"b">>),
                     Ing(<<"a">> \o Separator, 2, <<"b">>)>>)>>,
   pantryText |-> <<>>,
   picked |-> <<Meal(101, sSoup)>>,
   hiddenShoppingKeys |-> <<>>]

\* Sugar in g and sugar in G, both picked, and the extras rows "Coffee",
\* "coffee", " COFFEE "
SugarState ==
  [recipes |-> <<Recipe(103, sCake, <<Ing(sSugar, 200, sG)>>),
                 Recipe(104, sTea, <<Ing(ToLowerCase(sSugar), 1, <<"G">>)>>)>>,
   pantryText |-> sCoffee \o <<NL>> \o ToLowerCase(sCoffee) \o <<NL>>
                  \o <<" ","C","O","F","F","E","E"," ">>,
   picked |-> <<Meal(103, sCake), Meal(104, sTea)>>,
   hiddenShoppingKeys |-> <<>>]

\* an ingredient whose unit ends with the text "|||" and an extras row
\* that holds it
SeparatorExtraState ==
  [recipes |-> <<Recipe(101, sSoup, <<Ing(<<"a">>, 1, <<"b">> \o Separator)>>)>>,
   pantryText |-> <<"a">> \o Separator \o <<"b">>,
   picked |-> <<Meal(101, sSoup)>>,
   hiddenShoppingKeys |-> <<>>]

InitialStores == {KvEmpty, LegacyState}
LoadedStores == {LegacyState, RiceState, SeparatorState}
\* the documents the aggregation is run on
AggStores == {RiceState, SugarState, SeparatorExtraState}

Forms == {FormSoup, FormPilaf, FormNoName, FormNoRows}
ExtraValues == {sOnion, <<" ">> \o sRice, <<>>}
Passwords == {"right", "wrong"}

\* every index a list of the model can have
Indexes == 1..(MaxEdits + 4)

(***************************************************************************)
(* The specifications                                                      *)
(***************************************************************************)
Init ==
  /\ mounted = FALSE
  /\ authed = "null"
  /\ state = NullState
  /\ extraItems = <<<<>>>>
  /\ extrasReady = FALSE
  /\ hasLoaded = FALSE
  /\ authError = "null"
  /\ saveTimer = 0
  /\ saveCleanup = FALSE
  /\ timers = {}
  /\ mountLoad = "idle"
  /\ logins = <<>>
  /\ logoutSent = FALSE
  /\ saveReqs = <<>>
  /\ kv \in InitialStores
  /\ cookie \in BOOLEAN
  /\ uidCount = 0
  /\ edits = 0
  /\ everLoaded = FALSE
  /\ lastOp = Op("none", 0)
  /\ exchange = NoExchange

\* the whole program; the user's edits are an added or deleted recipe and
\* a changed first extras row
Next ==
  \/ Mount
  \/ MountLoadOk
  \/ MountLoad401
  \/ MountLoadFail
  \/ \E pw \in Passwords : Login(pw)
  \/ \E i \in 1..MaxLogins : LoginRejected(i)
  \/ \E i \in 1..MaxLogins : LoginAccepted(i)
  \/ \E i \in 1..MaxLogins : LoginLoadOk(i)
  \/ \E i \in 1..MaxLogins : LoginLoad401(i)
  \/ \E i \in 1..MaxLogins : LoginLoadFail(i)
  \/ Logout
  \/ LogoutDone
  \/ TimerFire
  \/ \E i \in 1..MaxInFlight : SaveOk(i)
  \/ \E i \in 1..MaxInFlight : Save401(i)
  \/ \E i \in 1..MaxInFlight : SaveFail(i)
  \/ SessionExpire
  \/ \E form \in {FormSoup, FormNoName} : addRecipe(form)
  \/ removeRecipe(1)
  \/ updateExtraItemRow(1, sOnion)

Spec == Init /\ [][Next]_vars

\* The main page right after the initial load of one of these documents.
InitLoaded(stores) ==
  /\ mounted = TRUE
  /\ authed = "true"
  /\ hasLoaded = TRUE
  /\ extrasReady = TRUE
  /\ authError = "null"
  /\ mountLoad = "done"
  /\ logins = <<>>
  /\ logoutSent = FALSE
  /\ saveReqs = <<>>
  /\ cookie = TRUE
  /\ uidCount = 0
  /\ edits = 0
  /\ everLoaded = TRUE
  /\ lastOp = Op("none", 0)
  /\ exchange = NoExchange
  /\ \E s \in stores :
       LET migrated == Migrate(s)
           items == ParseExtras(migrated.pantryText)
           r == Render(migrated, TRUE, items, TRUE, TRUE, TRUE,
                       [timers |-> {}, saveTimer |-> 0, saveCleanup |-> FALSE])
       IN /\ kv = s
          /\ extraItems = items
          /\ state = r.state
          /\ timers = r.timers
          /\ saveTimer = r.saveTimer
          /\ saveCleanup = r.saveCleanup

\* The main page right after the initial load of a stored document, and
\* from there every handler of the main page with no network event between.
InitMain == InitLoaded(LoadedStores)

NextMain ==
  \/ \E form \in Forms : addRecipe(form)
  \/ \E i \in Indexes : removeRecipe(i)
  \/ \E n \in PickArgs : randomPick(n)
  \/ clearPicked
  \/ \E i \in Indexes : unpick(i)
  \/ \E i \in Indexes : hideShoppingItem(i)
  \/ restoreShoppingList
  \/ \E i \in Indexes : \E value \in ExtraValues : updateExtraItemRow(i, value)
  \/ \E i \in Indexes : extraEnter(i)
  \/ \E i \in Indexes : removeExtraItemRow(i)

SpecMain == InitMain /\ [][NextMain]_vars

\* The aggregation run on the documents of AggStores and on what the
\* handlers that change its inputs (the picked meals, the extras rows)
\* make of them.
InitAgg == InitLoaded(AggStores)

NextAgg ==
  \/ \E i \in Indexes : unpick(i)
  \/ \E i \in Indexes : \E value \in ExtraValues : updateExtraItemRow(i, value)
  \/ \E i \in Indexes : extraEnter(i)
  \/ \E i \in Indexes : removeExtraItemRow(i)

SpecAgg == InitAgg /\ [][NextAgg]_vars

\* The state endpoint by itself, with requests from any client: every
\* cookie header, deployments with and without COOKIE_SECRET.
Secrets == {"s3cret", "unset"}
CookieValues == {"", "ok", "x"}
CookieSigs == {<<>>, Hmac("s3cret", "ok"), Hmac("s3cret", "x"), Hmac("other", "ok")}
RawCookies == {NoCookie} \union {RawCookie(v, s) : v \in CookieValues, s \in CookieSigs}
Bodies == {LegacyState, RiceState, SugarState}

ServerFrame ==
  UNCHANGED <<mounted, authed, state, extraItems, extrasReady, hasLoaded, authError,
              saveTimer, saveCleanup, timers, mountLoad, logins, logoutSent, saveReqs,
              cookie, uidCount, edits, everLoaded, lastOp>>

\* a GET /api/state arrives and is answered
ServerGET(raw, secret) ==
  /\ exchange' = [method |-> "GET", raw |-> raw, secret |-> secret,
                  status |-> RouteGET(raw, secret, kv).status,
                  body |-> RouteGET(raw, secret, kv).body]
  /\ UNCHANGED kv
  /\ ServerFrame

\* a POST /api/state arrives and is answered
ServerPOST(raw, secret, body) ==
  /\ exchange' = [method |-> "POST", raw |-> raw, secret |-> secret,
                  status |-> RoutePOST(raw, secret, kv, body).status,
                  body |-> NullState]
  /\ kv' = RoutePOST(raw, secret, kv, body).kv
  /\ ServerFrame

InitServer ==
  /\ Init
  /\ cookie = FALSE

NextServer ==
  \/ \E raw \in RawCookies : \E secret \in Secrets : ServerGET(raw, secret)
  \/ \E raw \in RawCookies : \E secret \in Secrets : \E body \in Bodies :
       ServerPOST(raw, secret, body)

SpecServer == InitServer /\ [][NextServer]_vars

\* The authenticated page with a session that stays valid and a server
\* that answers every save with 200: the user edits, the timers fire (400
\* ms after they were set), the requests complete in any order.  Timers
\* and responses are never withheld for ever.
MaxOverlap == 2

InitSync == InitLoaded({RiceState, LegacyState})

NextSync ==
  \/ \E form \in {FormSoup, FormNoName} : addRecipe(form)
  \/ removeRecipe(1)
  \/ updateExtraItemRow(1, sOnion)
  \/ TimerFireUpTo(MaxOverlap)
  \/ \E i \in 1..MaxOverlap : SaveOk(i)

\* The recipe forms of the two revisions of the page, on a loaded
\* document: whatever is typed into the form, then addRecipe(); recipes
\* can be deleted again.
RecipeForms == Forms \union {FormOddRows, FormOnlyOddRows}

Text(lines) == JoinLines(lines)
LineRice == sRice \o <<",", " ", "1", "0", "0", ",", " ">> \o sG
LineOnionZero == sOnion \o <<",", "0", ",">> \o sPcs
LineOnionNoQty == sOnion \o <<",", " ", ",">> \o sPcs
LineOnionMinus == sOnion \o <<",", "-", "1", ",">> \o sPcs
LineOnionWord == sOnion \o <<",", "x", ",">> \o sPcs
LineTwoParts == sOnion \o <<",", "2">>
LineNoUnit == sOnion \o <<",", "2", ",", " ">>

EarlierForms ==
  {[recipeName |-> sPilaf, ingredientsText |-> Text(<<LineRice, LineOnionWord, LineTwoParts>>)],
   [recipeName |-> sSoup, ingredientsText |-> Text(<<LineOnionZero>>)],
   [recipeName |-> sSoup, ingredientsText |-> Text(<<LineOnionNoQty, LineRice>>)],
   [recipeName |-> sSoup, ingredientsText |-> Text(<<LineOnionMinus>>)],
   [recipeName |-> sSoup, ingredientsText |-> Text(<<LineOnionWord, LineNoUnit, <<>>>>)],
   [recipeName |-> <<" ">>, ingredientsText |-> Text(<<LineRice>>)]}

InitRecipeForm == InitLoaded(LoadedStores)

NextRecipeForm ==
  \/ \E form \in RecipeForms : addRecipe(form)
  \/ \E form \in EarlierForms : addRecipeEarlier(form)
  \/ \E i \in Indexes : removeRecipe(i)

SpecRecipeForm == InitRecipeForm /\ [][NextRecipeForm]_vars

\* The loaded page with a session and a server that work: the user edits,
\* logs out, logs in again, and at any moment the component can be torn
\* down; what was begun before (a logout, a login) still runs to its end.
InitCancel == InitLoaded({RiceState})

NextCancel ==
  \/ addRecipe(FormSoup)
  \/ removeRecipe(1)
  \/ TimerFire
  \/ \E i \in 1..MaxInFlight : SaveOk(i)
  \/ Logout
  \/ LogoutDone
  \/ Login("right")
  \/ \E i \in 1..MaxLogins : LoginAccepted(i)
  \/ \E i \in 1..MaxLogins : LoginLoadOk(i)
  \/ Unmount

SpecCancel == InitCancel /\ [][NextCancel]_vars

SpecSync ==
  /\ InitSync /\ [][NextSync]_vars
  /\ WF_vars(TimerFireUpTo(MaxOverlap))
  /\ \A i \in 1..MaxOverlap : WF_vars(SaveOk(i))

(***************************************************************************)
(* Properties of the shopping list                                         *)
(***************************************************************************)
RECURSIVE SumQty(_)
SumQty(qs) == IF qs = <<>> THEN 0 ELSE Head(qs) + SumQty(Tail(qs))

RECURSIVE MatchingQtys(_, _, _)
\* the quantities of the ingredients with this normalized name and this
\* trimmed unit, in order
MatchingQtys(ings, nameNorm, unit) ==
  IF ings = <<>> THEN <<>>
  ELSE (IF normalizeName(Head(ings).name) = nameNorm /\ Trim(Head(ings).unit) = unit
        THEN <<Head(ings).qty>> ELSE <<>>)
       \o MatchingQtys(Tail(ings), nameNorm, unit)

RECURSIVE PickedIngredients(_, _)
\* the ingredients of the picked meals' recipes, one copy per picked meal
PickedIngredients(recipes, picked) ==
  IF picked = <<>> THEN <<>>
  ELSE LET r == FindRecipe(recipes, Head(picked).recipeId)
       IN (IF r = <<>> THEN <<>> ELSE r[1].ingredients)
          \o PickedIngredients(recipes, Tail(picked))

\* C1: every entry groupShoppingList returns has as its quantity the sum
\* of the quantities of all ingredients of the picked recipes that have
\* the entry's normalized name and its trimmed unit (a name that is a
\* pantry line has no entry); Rice 100 g in two picked recipes is one
\* entry of 200.
C1_EntryQuantityIsSum ==
  UIMain =>
    LET list == groupShoppingList(state.recipes, state.picked, PantryOf(state))
        ings == PickedIngredients(state.recipes, state.picked)
    IN \A i \in 1..Len(list) :
         list[i].qty = SumQty(MatchingQtys(ings, normalizeName(list[i].name), list[i].unit))

\* C2: a pantry line whose normalized form is the normalized name of an
\* ingredient of a picked recipe leaves the shopping list Home derives
\* (aggregation, extras merge, visibility filter) without any entry of
\* that name.
C2_PantryLineExcludesName ==
  UIMain =>
    LET pantry == PantryOf(state)
        ings == PickedIngredients(state.recipes, state.picked)
        list == VisibleShoppingListOf(state, extraItems)
    IN \A p \in 1..Len(pantry) : \A g \in 1..Len(ings) :
         normalizeName(pantry[p]) = normalizeName(ings[g].name) =>
           \A e \in 1..Len(list) : normalizeName(list[e].name) # normalizeName(pantry[p])

\* the document after hideShoppingItem(name, unit), early return included
AfterHide(st, it) ==
  IF HideReturnsEarly(st, it.name, it.unit) THEN st ELSE HideDoc(st, it.name, it.unit)

\* C3 as stated: for every state of the document, entries hidden earlier
\* included, hiding a visible entry X and then calling restoreShoppingList
\* gives the visible list there was before X was hidden.
C3_HideRestoreIsIdentity ==
  UIShoppingList =>
    LET visible == VisibleShoppingListOf(state, extraItems)
    IN \A i \in 1..Len(visible) :
         VisibleShoppingListOf(RestoreDoc(AfterHide(state, visible[i])), extraItems) = visible

\* C3: hiding a visible entry X and then calling restoreShoppingList gives
\* the whole shopping list with nothing hidden, which is the visible list
\* there was before X was hidden when no entry of the list was hidden then.
C3_HideRestoreShowsAll ==
  UIShoppingList =>
    LET visible == VisibleShoppingListOf(state, extraItems)
        all == ShoppingListOf(state, extraItems)
    IN \A i \in 1..Len(visible) :
         LET after == VisibleShoppingListOf(RestoreDoc(AfterHide(state, visible[i])), extraItems)
         IN /\ after = all
            /\ (\A e \in 1..Len(all) :
                  shoppingKey(all[e].name, all[e].unit) \notin HiddenSetOf(state))
               => after = visible

\* restoreShoppingList ran right after hideShoppingItem, with an entry
\* besides the hidden one on the list
C3_Witness ==
  /\ lastOp = Op("restoreShoppingList", 1)
  /\ state.hiddenShoppingKeys = <<>>
  /\ Len(VisibleShoppingListOf(state, extraItems)) >= 2

C5_PickSamplesWithoutReplacement ==
  [][\A n \in 1..PickButtons :
       randomPick(n) /\ state.recipes # <<>> =>
         LET recs == state.recipes
             p == state'.picked
         IN /\ Len(p) = Min(n, Len(recs))
            /\ \A i, j \in 1..Len(p) : i # j => p[i].recipeId # p[j].recipeId
            /\ \A i \in 1..Len(p) : \E r \in 1..Len(recs) : recs[r].id = p[i].recipeId
            /\ n > Len(recs) =>
                 \A r \in 1..Len(recs) : \E i \in 1..Len(p) : p[i].recipeId = recs[r].id]_vars

\* randomPick(n) ran with n above the number of recipes, of which there
\* are several
C5_Witness ==
  /\ lastOp.op = "randomPick"
  /\ Len(state.recipes) >= 2
  /\ lastOp.arg > Len(state.recipes)
  /\ Len(state.picked) = Len(state.recipes)

(***************************************************************************)
(* Properties of loading, saving and logging in                            *)
(***************************************************************************)
\* C6: no save request is sent before the first load has succeeded: until
\* then no request is in flight, no save is scheduled and the store is as
\* it was; and no request or scheduled save ever carries the null state.
C6_NoSaveBeforeLoad ==
  /\ ~everLoaded => saveReqs = <<>> /\ timers = {} /\ kv \in InitialStores
  /\ \A i \in 1..Len(saveReqs) : saveReqs[i] # NullState
  /\ \A t \in timers : t.body # NullState
  /\ kv # NullState

\* a save request is in flight, after a load
C6_Witness == saveReqs # <<>> /\ everLoaded

\* C7: while authenticated every change of the document schedules a save
\* and cancels the one pending; at most one save is pending at any moment
\* and it carries the document as it is; a save that fires sends exactly
\* one request, with the document after the last change, and leaves
\* nothing pending.
C7_OnePendingSaveOfLatest ==
  /\ [](Cardinality(timers) <= 1 /\ \A t \in timers : t.body = state)
  /\ [][authed = "true" /\ authed' = "true" /\ state' # state =>
          /\ timers' \cap timers = {}
          /\ \E t \in timers' : timers' = {t} /\ t.body = state']_vars
  /\ [][Len(saveReqs') > Len(saveReqs) =>
          saveReqs' = Append(saveReqs, state) /\ timers' = {}]_vars

\* two edits made one after the other, the one save of which was sent
C7_Witness ==
  /\ edits >= 2
  /\ timers = {}
  /\ saveReqs = <<state>>
  /\ kv = LegacyState

\* C8: a save answered 401 makes the controller unauthenticated and
\* leaves the document in memory, and the extras rows, as they are.
C8_Save401KeepsDocument ==
  [][\A i \in 1..MaxInFlight :
       Save401(i) => authed' = "false" /\ state' = state /\ extraItems' = extraItems]_vars

\* unauthenticated with the document still in memory
C8_Witness == authed = "false" /\ state # NullState /\ edits >= 1

\* the loaded document as the page holds it after the load: migrated, and
\* the pantry text rewritten from the extras rows parsed from it
AfterLoad(s) ==
  [Migrate(s) EXCEPT !.pantryText = JoinLines(TrimmedNonBlank(SplitLines(s.pantryText)))]

\* the load of the mount ends
LoadCompletes == mountLoad = "sent" /\ mountLoad' = "done"

\* the three ends of the load of the mount; doc is the document in memory
\* after a success
LoadOutcome(doc) ==
  /\ authed = "null" /\ authError = "null"
  /\ \/ /\ authed' = "false" /\ authError' = "null" /\ state' = NullState
        /\ StateGET(cookie, kv).status = 401
     \/ /\ authed' = "false" /\ authError' = "Could not load data."
        /\ state' = NullState
     \/ /\ authed' = "true" /\ authError' = "null"
        /\ StateGET(cookie, kv).status = 200
        /\ state' = doc
  /\ MountLoad401 => authError' = "null"
  /\ MountLoadFail => authError' = "Could not load data."
  /\ MountLoadOk => authed' = "true"

\* C9 as stated: the load of the mount ends in one of three ways: 401,
\* unauthenticated without the error; another failure, unauthenticated
\* with the error; success, authenticated with the loaded document (its
\* hiddenShoppingKeys defaulted) as the document in memory.  Unknown ends
\* with the load and never comes back.
C9_LoadSetsLoadedDocument ==
  /\ [][LoadCompletes => LoadOutcome(Migrate(StateGET(cookie, kv).body))]_vars
  /\ [](mountLoad = "done" => authed # "null")
  /\ [][authed # "null" => authed' # "null"]_vars

\* C9: as above, the document in memory after a success being the loaded
\* document with hiddenShoppingKeys defaulted and with pantryText
\* rewritten as its trimmed non-blank lines joined by newlines.
C9_LoadSetsNormalizedDocument ==
  /\ [][LoadCompletes => LoadOutcome(AfterLoad(StateGET(cookie, kv).body))]_vars
  /\ [](mountLoad = "done" => authed # "null")
  /\ [][authed # "null" => authed' # "null"]_vars

\* the load of the mount succeeded on a document whose pantry text is not
\* in the joined form
C9_Witness ==
  /\ mountLoad = "done" /\ authed = "true" /\ edits = 0 /\ logins = <<>>
  /\ kv = LegacyState /\ state = AfterLoad(LegacyState) /\ state # Migrate(LegacyState)

\* C10: a rejected login leaves the controller unauthenticated (it never
\* changes whether the controller is authenticated, which it can be only
\* through another login call) and the document as it is, ends the call
\* without a load, and shows the error of the server's answer,
\* "Login failed" only when the answer has none.
C10_RejectedLoginShowsServerError ==
  [][\A i \in 1..Len(logins) : \A env \in LoginEnvs :
       Len(logins') < Len(logins) /\ LoginRejectedBy(i, env) =>
         /\ authed' = authed /\ authed # "null"
         /\ authed = "false" => authed' = "false"
         /\ state' = state /\ extraItems' = extraItems
         /\ logins[i].at = "login" /\ logins' = RemoveAt(logins, i)
         /\ mountLoad' = mountLoad
         /\ env = "ok" => authError' = "Wrong password"
         /\ env = "unset" => authError' = "APP_PASSWORD not set"
         /\ env = "nobody" => authError' = "Login failed"]_vars

\* the wrong password was answered and its message is shown
C10_Witness ==
  /\ authed = "false" /\ authError = "Wrong password" /\ logins = <<>>

(***************************************************************************)
(* Properties of the load after a login, and of logout                     *)
(***************************************************************************)
\* C11: an accepted login loads as the mount does, with the same ends: a
\* success authenticates with the loaded document in memory (in the form
\* the load of the mount gives it); a load that fails otherwise than by
\* 401 leaves the controller unauthenticated and sets the load error; a
\* 401 on the load leaves it unauthenticated.
C11_LoginLoadEndsAsMountLoad ==
  [][\A i \in 1..Len(logins) :
       /\ Len(logins') < Len(logins) /\ LoginLoadOk(i) =>
            authed' = "true" /\ state' = AfterLoad(StateGET(cookie, kv).body)
       /\ Len(logins') < Len(logins) /\ LoginLoad401(i) =>
            authed' = authed /\ authed' # "null"
       /\ Len(logins') < Len(logins) /\ LoginLoadFail(i) =>
            /\ authed' = authed /\ authed' # "null"
            /\ authError' = "Could not load data."]_vars

\* C12: logout() first notifies the server and then leaves the controller
\* unauthenticated, the document in memory discarded (null) and the extras
\* rows reset to one blank row; it sends no save request and leaves the
\* stored document as it is.
C12_LogoutDiscardsDocument ==
  [][logoutSent /\ ~logoutSent' /\ LogoutDone =>
       /\ authed' = "false"
       /\ state' = NullState
       /\ extraItems' = <<<<>>>>
       /\ saveReqs' = saveReqs
       /\ kv' = kv]_vars

\* logged out after an edit that was never saved: nothing in memory, the
\* store as it was
C12_Witness ==
  /\ everLoaded /\ authed = "false" /\ state = NullState /\ ~logoutSent
  /\ edits >= 1 /\ saveReqs = <<>> /\ kv = LegacyState

(***************************************************************************)
(* Properties of removeRecipe and of the merging of entries                *)
(***************************************************************************)
\* the recipes other than the one with this id, in order
RecipesBut(recipes, id) ==
  LET keep(r) == r.id # id IN SelectSeq(recipes, keep)

\* the picked meals of recipes other than the one with this id, in order
MealsBut(picked, id) ==
  LET keep(p) == p.recipeId # id IN SelectSeq(picked, keep)

\* C13: removeRecipe(id) of a recipe that is picked takes that recipe out
\* of recipes and every meal of it out of picked, leaves the other recipes
\* and meals (and the rest of the document) as they are, and the shopping
\* list afterwards is the one of the remaining meals alone; it is possible
\* for every recipe shown.
C13_RemovePickedRecipe ==
  /\ [][\A i \in Indexes :
          /\ edits' = edits + 1 /\ removeRecipe(i)
          /\ \E p \in 1..Len(state.picked) : state.picked[p].recipeId = state.recipes[i].id
          => LET id == state.recipes[i].id
                 meals == MealsBut(state.picked, id)
             IN /\ state'.recipes = RecipesBut(state.recipes, id)
                /\ state'.picked = meals
                /\ \A r \in 1..Len(state'.recipes) : state'.recipes[r].id # id
                /\ \A p \in 1..Len(state'.picked) : state'.picked[p].recipeId # id
                /\ state'.pantryText = state.pantryText
                /\ state'.hiddenShoppingKeys = state.hiddenShoppingKeys
                /\ extraItems' = extraItems
                /\ ShoppingListOf(state', extraItems')
                     = ShoppingListOf([state EXCEPT !.picked = meals], extraItems)
                /\ groupShoppingList(state'.recipes, state'.picked, PantryOf(state'))
                     = groupShoppingList(RecipesBut(state.recipes, id), meals, PantryOf(state))]_vars
  /\ [](UIMain /\ edits < MaxEdits =>
          \A i \in 1..Len(state.recipes) : ENABLED removeRecipe(i))

\* Pilaf or Soup, both picked with Rice 100 g each, was removed: one
\* recipe and its meal are left, and Rice is on the list with 100
C13_Witness ==
  /\ kv = RiceState /\ edits = 1
  /\ Len(state.recipes) = 1 /\ Len(state.picked) = 1
  /\ state.picked[1].recipeId = state.recipes[1].id
  /\ \E e \in 1..Len(ShoppingListOf(state, extraItems)) :
       ShoppingListOf(state, extraItems)[e] = [name |-> sRice, unit |-> sG, qty |-> 100]

\* the normalized pantry lines
PantryNames(st) == {normalizeName(PantryOf(st)[i]) : i \in 1..Len(PantryOf(st))} \ {<<>>}

\* C14: two picked ingredients with the same normalized name and
\* different trimmed units ("g" and "G" are different) have two entries,
\* one per unit, and an extras row never adds to an entry that has a
\* unit: every such entry of the aggregated list is on the merged list
\* with its quantity as it was.
C14_UnitsNeverMerge ==
  UIMain =>
    LET ings == PickedIngredients(state.recipes, state.picked)
        base == groupShoppingList(state.recipes, state.picked, PantryOf(state))
        list == ShoppingListOf(state, extraItems)
    IN /\ \A g, h \in 1..Len(ings) :
            /\ normalizeName(ings[g].name) = normalizeName(ings[h].name)
            /\ normalizeName(ings[g].name) \notin PantryNames(state) \cup {<<>>}
            /\ Trim(ings[g].unit) # Trim(ings[h].unit)
            => \E e, f \in 1..Len(list) :
                 /\ e # f
                 /\ normalizeName(list[e].name) = normalizeName(ings[g].name)
                 /\ normalizeName(list[f].name) = normalizeName(ings[g].name)
                 /\ list[e].unit = Trim(ings[g].unit)
                 /\ list[f].unit = Trim(ings[h].unit)
       /\ \A e \in 1..Len(base) :
            base[e].unit # <<>> => \E f \in 1..Len(list) : list[f] = base[e]

RECURSIVE CountName(_, _)
\* how many of the extras have this normalized name
CountName(extras, nameNorm) ==
  IF extras = <<>> THEN 0
  ELSE (IF normalizeName(Head(extras)) = nameNorm THEN 1 ELSE 0)
       + CountName(Tail(extras), nameNorm)

\* the quantity a list has for this normalized name without a unit, 0 if
\* it has no such entry
UnitlessQty(list, nameNorm) ==
  IF \E e \in 1..Len(list) : normalizeName(list[e].name) = nameNorm /\ list[e].unit = <<>>
  THEN (CHOOSE q \in {list[e].qty : e \in {f \in 1..Len(list) :
                       normalizeName(list[f].name) = nameNorm /\ list[f].unit = <<>>}} : TRUE)
  ELSE 0

\* a base list that has Coffee without a unit
UnitlessBase == <<[name |-> sCoffee, unit |-> <<>>, qty |-> 2]>>

\* what C15 says of one base list and one list of extras
ExtrasAccumulate(base, extras) ==
  LET list == mergeExtrasIntoShoppingList(base, extras)
  IN \A x \in 1..Len(extras) :
       LET nameNorm == normalizeName(extras[x])
           rows == {e \in 1..Len(list) :
                      normalizeName(list[e].name) = nameNorm /\ list[e].unit = <<>>}
       IN nameNorm # <<>> =>
            /\ Cardinality(rows) = 1
            /\ \A e \in rows :
                 list[e].qty = CountName(extras, nameNorm) + UnitlessQty(base, nameNorm)

\* C15: for the aggregated list of the document (and for a base list with
\* a unit-less entry) and the extras rows, mergeExtrasIntoShoppingList
\* gives for every normalized non-blank extra name exactly one row
\* without unit, its quantity the number of extras of that name plus the
\* quantity of the base entry of that name without unit, if there is one;
\* "Coffee", "coffee", " COFFEE " give one row of 3.
C15_ExtrasAccumulate ==
  UIMain =>
    /\ ExtrasAccumulate(groupShoppingList(state.recipes, state.picked, PantryOf(state)),
                        TrimmedNonBlank(extraItems))
    /\ ExtrasAccumulate(groupShoppingList(state.recipes, state.picked, PantryOf(state)),
                        extraItems)
    /\ ExtrasAccumulate(UnitlessBase, extraItems)

\* a request carries a valid session: its cookie is "ok" with the
\* signature of "ok" under the deployment's COOKIE_SECRET
ValidSession(raw, secret) ==
  /\ secret # "unset"
  /\ raw.present /\ raw.value = "ok" /\ raw.sig = Hmac(secret, "ok")

\* C16: a GET or POST of the state endpoint without a valid session is
\* answered 401, returns no document and leaves the store as it was; a
\* POST with a valid session makes the request body the stored document.
C16_StateEndpointNeedsSession ==
  [][/\ \A raw \in RawCookies : \A secret \in Secrets :
          exchange' # exchange /\ ServerGET(raw, secret) /\ ~ValidSession(raw, secret) =>
            exchange'.status = 401 /\ exchange'.body = NullState /\ kv' = kv
     /\ \A raw \in RawCookies : \A secret \in Secrets : \A body \in Bodies :
          /\ exchange' # exchange /\ ServerPOST(raw, secret, body) /\ ~ValidSession(raw, secret) =>
               exchange'.status = 401 /\ exchange'.body = NullState /\ kv' = kv
          /\ exchange' # exchange /\ ServerPOST(raw, secret, body) /\ ValidSession(raw, secret) =>
               exchange'.status = 200 /\ kv' = body]_vars

\* C16 as the code has it: without a valid session the answer is 401, or
\* 500 when the cookie's value is "ok", it has a signature and the
\* deployment has no COOKIE_SECRET; either way no document is returned
\* and the store stays as it was. A POST with a valid session makes the
\* request body the stored document.
C16_StateEndpointRefusesWithoutSession ==
  [][/\ \A raw \in RawCookies : \A secret \in Secrets :
          exchange' # exchange /\ ServerGET(raw, secret) /\ ~ValidSession(raw, secret) =>
            /\ exchange'.status =
                 IF secret = "unset" /\ raw.present /\ raw.value = "ok" /\ raw.sig # <<>>
                 THEN 500 ELSE 401
            /\ exchange'.body = NullState /\ kv' = kv
     /\ \A raw \in RawCookies : \A secret \in Secrets : \A body \in Bodies :
          /\ exchange' # exchange /\ ServerPOST(raw, secret, body) /\ ~ValidSession(raw, secret) =>
               /\ exchange'.status =
                    IF secret = "unset" /\ raw.present /\ raw.value = "ok" /\ raw.sig # <<>>
                    THEN 500 ELSE 401
               /\ exchange'.body = NullState /\ kv' = kv
          /\ exchange' # exchange /\ ServerPOST(raw, secret, body) /\ ValidSession(raw, secret) =>
               exchange'.status = 200 /\ kv' = body]_vars

\* a document was stored with a valid session, and a POST of another
\* document with a signature made under another secret was refused
C16_Witness ==
  /\ kv = RiceState
  /\ exchange.method = "POST" /\ exchange.status = 401
  /\ exchange.raw = RawCookie("ok", Hmac("other", "ok")) /\ exchange.secret = "s3cret"

\* the objects at the addresses of before are as they were
SameObjects(before, after) ==
  /\ Len(after) >= Len(before)
  /\ \A a \in 1..Len(before) : after[a] = before[a]

\* what C17 says of two runs of mergeExtrasIntoShoppingList on base
\* entries that are in memory
MergeTwice(base, extras) ==
  LET baseRefs == [i \in 1..Len(base) |-> i]
      m1 == HeapMergeExtrasIntoShoppingList(base, baseRefs, extras)
      m2 == HeapMergeExtrasIntoShoppingList(m1.heap, baseRefs, extras)
  IN /\ SameObjects(base, m1.heap) /\ SameObjects(m1.heap, m2.heap)
     /\ Deref(m2.heap, m2.out) = Deref(m1.heap, m1.out)
     /\ Deref(m1.heap, m1.out) = mergeExtrasIntoShoppingList(base, extras)

\* C17: groupShoppingList and mergeExtrasIntoShoppingList on its result,
\* run on the document and the extras rows and then run again in the
\* memory the first run left, return equal lists both times, and no
\* object that was there before a call (the ingredients of the recipes,
\* the entries of the base list) is different after it.
C17_AggregationIsPure ==
  UIMain =>
    LET ings == AllIngredients(state.recipes)
        refRecipes == RefRecipes(state.recipes)
        pantry == PantryOf(state)
        extras == TrimmedNonBlank(extraItems)
        g1 == HeapGroupShoppingList(ings, refRecipes, state.picked, pantry)
        m1 == HeapMergeExtrasIntoShoppingList(g1.heap, g1.out, extras)
        g2 == HeapGroupShoppingList(m1.heap, refRecipes, state.picked, pantry)
        m2 == HeapMergeExtrasIntoShoppingList(g2.heap, g2.out, extras)
    IN /\ SameObjects(ings, g1.heap) /\ SameObjects(g1.heap, m1.heap)
       /\ SameObjects(m1.heap, g2.heap) /\ SameObjects(g2.heap, m2.heap)
       /\ Deref(g2.heap, g2.out) = Deref(g1.heap, g1.out)
       /\ Deref(m2.heap, m2.out) = Deref(m1.heap, m1.out)
       /\ Deref(g1.heap, g1.out) = groupShoppingList(state.recipes, state.picked, pantry)
       /\ Deref(m1.heap, m1.out) = ShoppingListOf(state, extraItems)
       /\ MergeTwice(Deref(g1.heap, g1.out), extraItems)
       /\ MergeTwice(UnitlessBase, extraItems)

\* after an edit (the list has been computed again) two recipes with the
\* ingredient sugar are picked and two extras rows name coffee, which a
\* base list with coffee has without unit
C17_Witness ==
  /\ UIMain /\ kv = SugarState /\ edits >= 1
  /\ Len(groupShoppingList(state.recipes, state.picked, PantryOf(state))) = 2
  /\ CountName(extraItems, normalizeName(sCoffee)) = 2

\* C19: a save request is sent only while the controller is
\* authenticated; a timer set while it was authenticated sends nothing
\* when it fires after a 401 has made the controller unauthenticated.
C19_NoSaveWhileUnauthenticated ==
  [][Len(saveReqs') > Len(saveReqs) => authed = "true"]_vars

\* C20: a load that succeeds (on mount or after a login) sets no save
\* timer, and a save request is sent only when the user has changed the
\* document since.
C20_LoadSchedulesNoSave ==
  /\ [][(MountLoadOk \/ \E i \in 1..Len(logins) : LoginLoadOk(i)) =>
          timers' \subseteq timers]_vars
  /\ [][Len(saveReqs') > Len(saveReqs) => edits > 0]_vars

\* C18: with the controller authenticated throughout, the user's edits
\* at an end and every save answered 200, the stored document from some
\* point on equals the document in memory, in whatever order the save
\* requests in flight complete.
C18_StoreConvergesToDocument == <>[](kv = state)

\* C21: when logout() has run to its end, and when the component is torn
\* down, no save timer is left pending, also when an edit set one just
\* before; from then until a load succeeds (hasLoaded is false from the
\* logout to that load) no save request is sent, and none at all once the
\* component is gone.
C21_LogoutAndTeardownCancelSave ==
  /\ [][(logoutSent /\ ~logoutSent' /\ LogoutDone) \/ (~mounted' /\ Unmount) =>
          timers' = {}]_vars
  /\ [][Len(saveReqs') > Len(saveReqs) => mounted /\ hasLoaded]_vars
  /\ [](~mounted \/ ~hasLoaded => timers = {})

\* logout() has run to its end after an edit whose save was never sent:
\* the store still holds the loaded document
C21_Witness ==
  /\ mounted /\ authed = "false" /\ state = NullState /\ ~hasLoaded /\ ~logoutSent
  /\ edits >= 1 /\ saveTimer # 0 /\ timers = {} /\ saveReqs = <<>> /\ kv = RiceState

\* the keys of the sequence
KeySet(keys) == {keys[i] : i \in 1..Len(keys)}

\* a step of the main page that takes a key out of hiddenShoppingKeys is
\* a step of randomPick, of the clear button or of restoreShoppingList
OnlyThreeRemoveKeys ==
  state # NullState /\ state' # NullState
  /\ ~(KeySet(state.hiddenShoppingKeys) \subseteq KeySet(state'.hiddenShoppingKeys))
  => \/ \E n \in PickArgs : randomPick(n)
     \/ clearPicked
     \/ restoreShoppingList

\* C22: whatever the document and n, hiddenShoppingKeys is empty after
\* randomPick(n), after the clear button and after restoreShoppingList;
\* no other operation takes a key out of hiddenShoppingKeys.
C22_PickClearRestoreEmptyHidden ==
  /\ [](UIMain =>
          /\ \A n \in PickArgs : \A doc \in RandomPickResults(state, n) :
               doc.hiddenShoppingKeys = <<>>
          /\ ClearPickedDoc(state).hiddenShoppingKeys = <<>>
          /\ RestoreDoc(state).hiddenShoppingKeys = <<>>)
  /\ [][OnlyThreeRemoveKeys]_vars

\* C22 as the code has it: randomPick(n) empties hiddenShoppingKeys when
\* the document has a recipe and changes nothing when it has none; the
\* clear button and restoreShoppingList always empty it; no other
\* operation takes a key out of it.
C22_PickWithRecipesClearRestoreEmptyHidden ==
  /\ [](UIMain =>
          /\ \A n \in PickArgs : \A doc \in RandomPickResults(state, n) :
               IF state.recipes # <<>> THEN doc.hiddenShoppingKeys = <<>> ELSE doc = state
          /\ ClearPickedDoc(state).hiddenShoppingKeys = <<>>
          /\ RestoreDoc(state).hiddenShoppingKeys = <<>>)
  /\ [][/\ OnlyThreeRemoveKeys
        /\ \A n \in PickArgs : edits' = edits + 1 /\ randomPick(n) =>
             state'.hiddenShoppingKeys = <<>>
        /\ edits' = edits + 1 /\ clearPicked => state'.hiddenShoppingKeys = <<>>
        /\ edits' = edits + 1 /\ restoreShoppingList => state'.hiddenShoppingKeys = <<>>]_vars

\* randomPick(2) was the second update, and no key is hidden
C22_Witness ==
  /\ UIMain /\ lastOp = Op("randomPick", 2) /\ edits = 2
  /\ state.hiddenShoppingKeys = <<>> /\ state.picked # <<>>

\* no element occurs twice in the sequence
NoDuplicate(keys) == \A i, j \in 1..Len(keys) : keys[i] = keys[j] => i = j

\* C23: a step of hideShoppingItem changes only hiddenShoppingKeys, to
\* which it appends the entry's key: recipes, picked, pantryText, the
\* extras rows and the unfiltered list stay, the entry is no longer on the
\* visible list, and with hiddenShoppingKeys emptied the visible list is
\* the unfiltered list.  Hiding an entry whose key is hidden already
\* changes nothing, and hiddenShoppingKeys never holds a key twice.
C23_HideChangesOnlyHiddenKeys ==
  /\ [][\A i \in Indexes :
          edits' = edits + 1 /\ hideShoppingItem(i) =>
            LET it == VisibleShoppingListOf(state, extraItems)[i]
                visibleAfter == VisibleShoppingListOf(state', extraItems')
            IN /\ state' = [state EXCEPT !.hiddenShoppingKeys =
                                           Append(@, shoppingKey(it.name, it.unit))]
               /\ extraItems' = extraItems
               /\ ShoppingListOf(state', extraItems') = ShoppingListOf(state, extraItems)
               /\ \A e \in 1..Len(visibleAfter) : visibleAfter[e] # it
               /\ Len(visibleAfter) < Len(VisibleShoppingListOf(state, extraItems))
               /\ VisibleShoppingListOf([state' EXCEPT !.hiddenShoppingKeys = <<>>], extraItems')
                    = ShoppingListOf(state, extraItems)]_vars
  /\ [](UIMain =>
          /\ NoDuplicate(state.hiddenShoppingKeys)
          /\ LET all == ShoppingListOf(state, extraItems)
             IN \A e \in 1..Len(all) :
                  /\ NoDuplicate(AfterHide(state, all[e]).hiddenShoppingKeys)
                  /\ shoppingKey(all[e].name, all[e].unit) \in HiddenSetOf(state) =>
                       AfterHide(state, all[e]) = state)

\* hideShoppingItem was the last update: one key is hidden, and the
\* visible list is shorter than the list but not empty
C23_Witness ==
  /\ UIMain /\ lastOp = Op("hideShoppingItem", 0)
  /\ Len(state.hiddenShoppingKeys) = 1
  /\ Len(VisibleShoppingListOf(state, extraItems)) >= 1
  /\ Len(VisibleShoppingListOf(state, extraItems)) < Len(ShoppingListOf(state, extraItems))

\* an ingredient of a stored recipe has a non-blank name, a quantity above
\* 0 and a non-blank unit
ValidIngredient(i) == Trim(i.name) # <<>> /\ i.qty > 0 /\ Trim(i.unit) # <<>>

\* a draft row passes the filter the claim names
PassesFilter(row) ==
  Trim(row.name) # <<>> /\ NumberIsFinite(row) /\ QtyPositive(row) /\ Trim(row.unit) # <<>>

\* the rows of the draft that pass, trimmed
PassingRows(draft) ==
  LET pass(row) == PassesFilter(row)
      passing == SelectSeq(draft, pass)
  IN [i \in 1..Len(passing) |-> [passing[i] EXCEPT !.name = Trim(@), !.unit = Trim(@)]]

\* what C24 says of addRecipe() of the current revision
CurrentAddRecipeValidates ==
  /\ [](UIMain => \A form \in RecipeForms :
          /\ AddRecipeRejects(form) <=>
               Trim(form.recipeName) = <<>> \/ PassingRows(form.draftIngredients) = <<>>
          /\ AddRecipeRejects(form) =>
               /\ AddRecipeForm(form).recipeName = form.recipeName
               /\ AddRecipeForm(form).draftIngredients = form.draftIngredients
               /\ AddRecipeForm(form).formError # "null"
               /\ ENABLED (addRecipe(form) /\ UNCHANGED vars))
  /\ [][\A form \in RecipeForms :
          edits' = edits + 1 /\ addRecipe(form) =>
            /\ ~AddRecipeRejects(form)
            /\ Tail(state'.recipes) = state.recipes
            /\ [state' EXCEPT !.recipes = state.recipes] = state
            /\ state'.recipes[1].ingredients = PassingRows(form.draftIngredients)
            /\ \A g \in 1..Len(state'.recipes[1].ingredients) :
                 ValidIngredient(state'.recipes[1].ingredients[g])]_vars

\* C24: addRecipe (of either revision of the page) is rejected, the
\* document and the form staying as they were, when the trimmed name is
\* blank or no ingredient entered has a non-blank name, a finite quantity
\* above 0 and a non-blank unit; a recipe it creates holds exactly the
\* entered ingredients that pass, so each of its ingredients has a
\* non-blank name, a quantity above 0 and a non-blank unit.
C24_AddRecipeValidates ==
  /\ CurrentAddRecipeValidates
  /\ [](UIMain => \A form \in EarlierForms :
          AddRecipeEarlierRejects(form) => AddRecipeEarlierForm(form) = form)
  /\ [][\A form \in EarlierForms :
          edits' = edits + 1 /\ addRecipeEarlier(form) =>
            /\ Tail(state'.recipes) = state.recipes
            /\ \A g \in 1..Len(state'.recipes[1].ingredients) :
                 ValidIngredient(state'.recipes[1].ingredients[g])]_vars

\* C25: when a save request fails otherwise than by 401 the controller
\* stays authenticated, the document stays as it was, and no save request
\* follows before the next change of the document: none is sent by the
\* failure, and no timer is left that will send one.
C25_FailedSaveNotRetried ==
  [][\A i \in 1..Len(saveReqs) :
       Len(saveReqs') < Len(saveReqs) /\ SaveFail(i) =>
         /\ authed' = "true" /\ state' = state
         /\ saveReqs' = RemoveAt(saveReqs, i)
         /\ timers' = {}]_vars

\* C25 as the code has it: the failure of a save request otherwise than
\* by 401 changes nothing but the end of that request: authed (so an
\* authenticated controller stays authenticated), the document, the
\* pending timer and the other requests are as before, and nothing is
\* scheduled or sent for the failed document.
C25_FailedSaveChangesNothing ==
  [][\A i \in 1..Len(saveReqs) :
       Len(saveReqs') < Len(saveReqs) /\ SaveFail(i) =>
         /\ authed' = authed /\ state' = state /\ extraItems' = extraItems
         /\ saveReqs' = RemoveAt(saveReqs, i)
         /\ timers' = timers /\ saveTimer' = saveTimer
         /\ kv' = kv /\ authError' = authError]_vars

\* authenticated with nothing pending and nothing in flight after an
\* edit, and the store differs from the document: a save was lost
C25_Witness ==
  /\ UIMain /\ cookie /\ edits >= 1
  /\ timers = {} /\ saveReqs = <<>> /\ logins = <<>> /\ ~logoutSent
  /\ kv # KvEmpty /\ kv # state

\* the list has an entry of this normalized name and this unit
HasEntry(list, nameNorm, unit) ==
  \E e \in 1..Len(list) : normalizeName(list[e].name) = nameNorm /\ list[e].unit = unit

\* C26: an entry is one pair (normalized name, trimmed unit), whatever
\* the strings are: every ingredient of a picked recipe that is counted
\* is in the entry of its own pair, every extra in the entry of its
\* normalized name without unit, and no two entries have the same pair;
\* so nothing is folded into the entry of another pair.
C26_EntryIdentityIsPair ==
  UIMain =>
    LET ings == PickedIngredients(state.recipes, state.picked)
        base == groupShoppingList(state.recipes, state.picked, PantryOf(state))
        extras == TrimmedNonBlank(extraItems)
        list == mergeExtrasIntoShoppingList(base, extras)
    IN /\ \A g \in 1..Len(ings) :
            normalizeName(ings[g].name) \notin PantryNames(state) \union {<<>>} =>
              /\ HasEntry(base, normalizeName(ings[g].name), Trim(ings[g].unit))
              /\ HasEntry(list, normalizeName(ings[g].name), Trim(ings[g].unit))
       /\ \A x \in 1..Len(extras) : HasEntry(list, normalizeName(extras[x]), <<>>)
       /\ \A e, f \in 1..Len(list) :
            normalizeName(list[e].name) = normalizeName(list[f].name)
            /\ list[e].unit = list[f].unit => e = f

(***************************************************************************)
(* Loading: C27                                                            *)
(***************************************************************************)
\* RiceState saved with the entry of Rice in g hidden
HiddenState == [RiceState EXCEPT !.hiddenShoppingKeys = <<shoppingKey(sRice, sG)>>]

LoadStores == {KvEmpty, LegacyState, HiddenState}

\* The page from its construction over an empty store, a document of an
\* older version or a document with a hidden entry: the load of the mount,
\* hiding and restoring, the saves, logout and the load of a login.
InitLoad ==
  /\ mounted = FALSE
  /\ authed = "null"
  /\ state = NullState
  /\ extraItems = <<<<>>>>
  /\ extrasReady = FALSE
  /\ hasLoaded = FALSE
  /\ authError = "null"
  /\ saveTimer = 0
  /\ saveCleanup = FALSE
  /\ timers = {}
  /\ mountLoad = "idle"
  /\ logins = <<>>
  /\ logoutSent = FALSE
  /\ saveReqs = <<>>
  /\ kv \in LoadStores
  /\ cookie \in BOOLEAN
  /\ uidCount = 0
  /\ edits = 0
  /\ everLoaded = FALSE
  /\ lastOp = Op("none", 0)
  /\ exchange = NoExchange

NextLoad ==
  \/ Mount
  \/ MountLoadOk
  \/ MountLoad401
  \/ MountLoadFail
  \/ Login("right")
  \/ \E i \in 1..MaxLogins : LoginAccepted(i)
  \/ \E i \in 1..MaxLogins : LoginLoadOk(i)
  \/ Logout
  \/ LogoutDone
  \/ TimerFire
  \/ \E i \in 1..MaxInFlight : SaveOk(i)
  \/ hideShoppingItem(1)
  \/ restoreShoppingList

SpecLoad == InitLoad /\ [][NextLoad]_vars

\* a load, of the mount or of a login, succeeds
LoadSucceeds == MountLoadOk \/ \E i \in 1..MaxLogins : LoginLoadOk(i)

\* the document a load receives
LoadedBody == StateGET(cookie, kv).body

\* C27 as stated: on every successful load, at mount and after login, the
\* document in memory is the loaded document with hiddenShoppingKeys = []
\* when it had none and with its own hiddenShoppingKeys when it had them,
\* all other fields unchanged; the default document of the empty store
\* gives empty recipes, picked and hiddenShoppingKeys.
C27_LoadTakesOverAllFields ==
  [][LoadSucceeds =>
       /\ "hiddenShoppingKeys" \notin DOMAIN LoadedBody => state'.hiddenShoppingKeys = <<>>
       /\ "hiddenShoppingKeys" \in DOMAIN LoadedBody =>
            state'.hiddenShoppingKeys = LoadedBody.hiddenShoppingKeys
       /\ state'.recipes = LoadedBody.recipes
       /\ state'.picked = LoadedBody.picked
       /\ state'.pantryText = LoadedBody.pantryText
       /\ kv = KvEmpty =>
            state'.recipes = <<>> /\ state'.picked = <<>> /\ state'.hiddenShoppingKeys = <<>>]_vars

\* C27: on every successful load, at mount and after login, the document
\* in memory has hiddenShoppingKeys = [] when the loaded document had none
\* and the loaded hiddenShoppingKeys when it had them, the recipes and the
\* picked meals of the loaded document, and as pantryText the trimmed
\* non-blank lines of the loaded pantryText joined by newlines; the default
\* document of the empty store gives empty recipes, picked and
\* hiddenShoppingKeys.
C27_LoadTakesOverAllButPantryText ==
  [][LoadSucceeds =>
       /\ "hiddenShoppingKeys" \notin DOMAIN LoadedBody => state'.hiddenShoppingKeys = <<>>
       /\ "hiddenShoppingKeys" \in DOMAIN LoadedBody =>
            state'.hiddenShoppingKeys = LoadedBody.hiddenShoppingKeys
       /\ state'.recipes = LoadedBody.recipes
       /\ state'.picked = LoadedBody.picked
       /\ state'.pantryText = JoinLines(TrimmedNonBlank(SplitLines(LoadedBody.pantryText)))
       /\ DOMAIN state' = {"recipes", "pantryText", "picked", "hiddenShoppingKeys"}
       /\ kv = KvEmpty =>
            state'.recipes = <<>> /\ state'.picked = <<>> /\ state'.hiddenShoppingKeys = <<>>]_vars

\* a load has made a stored document with a hidden entry the document in
\* memory, before any edit
C27_Witness ==
  /\ authed = "true" /\ everLoaded /\ logins = <<>> /\ ~logoutSent
  /\ edits = 0 /\ cookie
  /\ "hiddenShoppingKeys" \in DOMAIN kv /\ state = kv
  /\ state.hiddenShoppingKeys # <<>>

(***************************************************************************)
(* Extras storage: C28                                                     *)
(***************************************************************************)
\* a step of one of the three handlers of the extras rows
ExtrasEdit ==
  \E i \in Indexes :
    \/ extraEnter(i)
    \/ removeExtraItemRow(i)
    \/ \E value \in ExtraValues : updateExtraItemRow(i, value)

\* C28: on the main page, the extras sync having run, pantryText is the
\* trimmed non-blank extras rows joined by newlines; parsing that
\* pantryText as a load does gives those trimmed non-blank rows in the same
\* order followed by one blank row; and no edit of the extras rows changes
\* recipes, picked or hiddenShoppingKeys.
C28_ExtrasRoundTrip ==
  /\ [](UIMain =>
          /\ state.pantryText = JoinLines(TrimmedNonBlank(extraItems))
          /\ ParseExtras(Migrate(state).pantryText)
               = Append(TrimmedNonBlank(extraItems), <<>>))
  /\ [][ExtrasEdit =>
          /\ state'.recipes = state.recipes
          /\ state'.picked = state.picked
          /\ state'.hiddenShoppingKeys = state.hiddenShoppingKeys]_vars

\* after an edit the rows hold a blank row before a non-blank one and a
\* row that is not trimmed, and the document holds two extras
C28_Witness ==
  /\ UIMain /\ lastOp.op = "edit" /\ edits = MaxEdits
  /\ \E i, j \in 1..Len(extraItems) :
       /\ i < j /\ extraItems[i] = <<>> /\ extraItems[j] # <<>>
  /\ \E i \in 1..Len(extraItems) : extraItems[i] # Trim(extraItems[i])
  /\ Len(TrimmedNonBlank(extraItems)) >= 2
  /\ state.pantryText # <<>>

(***************************************************************************)
(* The picked meals: C29                                                   *)
(***************************************************************************)
\* a stored document whose two recipes have one id
TwinState ==
  [recipes |-> <<Recipe(101, sSoup, <<Ing(sOnion, 2, sPcs)>>),
                 Recipe(101, sPilaf, <<Ing(sRice, 100, sG)>>)>>,
   pantryText |-> <<>>,
   picked |-> <<Meal(101, sSoup)>>,
   hiddenShoppingKeys |-> <<>>]

\* The main page right after the initial load of a stored document, one of
\* them with two recipes of one id, and every handler of the main page.
InitPicked == InitLoaded(LoadedStores \union {TwinState})

SpecPicked == InitPicked /\ [][NextMain]_vars

\* every picked meal refers to a recipe of the document and no recipeId
\* occurs twice in picked
PickedValid(st) ==
  /\ \A p \in 1..Len(st.picked) :
       \E r \in 1..Len(st.recipes) : st.recipes[r].id = st.picked[p].recipeId
  /\ \A p, q \in 1..Len(st.picked) :
       st.picked[p].recipeId = st.picked[q].recipeId => p = q

\* no id occurs twice in recipes
DistinctRecipeIds(st) ==
  \A r, s \in 1..Len(st.recipes) : st.recipes[r].id = st.recipes[s].id => r = s

NullUnauthenticated == authed = "false" /\ state = NullState

\* C30: in every reachable state authenticated implies that the document
\* in memory is not null; the document is null only while the state is
\* unknown and in the unauthenticated state, which without a document is
\* entered only by a failed load of the mount or by logout; a 401 on save
\* that ends the authenticated state leaves the document, which is not
\* null.
C30_AuthenticatedHasDocument ==
  /\ [](/\ authed = "true" => state # NullState
        /\ state = NullState => authed \in {"null", "false"})
  /\ [][NullUnauthenticated' /\ ~NullUnauthenticated =>
          MountLoad401 \/ MountLoadFail \/ LogoutDone]_vars
  /\ [][\A i \in 1..Len(saveReqs) :
          Len(saveReqs') < Len(saveReqs) /\ authed = "true" /\ Save401(i) =>
            authed' = "false" /\ state' = state /\ state' # NullState]_vars

\* after a save was answered 401 the login page is shown with the document
\* still in memory, nothing pending, and a login is on its way
C30_Witness ==
  /\ authed = "false" /\ state # NullState /\ everLoaded /\ ~cookie
  /\ timers = {} /\ saveReqs = <<>> /\ logins # <<>>

(***************************************************************************)
(* The final shopping list: C31                                            *)
(***************************************************************************)
\* a document as the recipe form of the earlier revision can make it: an
\* ingredient of quantity 0, and one of quantity -2 beside the same
\* ingredient with quantity 2
ZeroQtyState ==
  [recipes |-> <<Recipe(102, sPilaf, <<Ing(sRice, 0, sG), Ing(sOnion, -2, sPcs)>>),
                 Recipe(101, sSoup, <<Ing(sOnion, 2, sPcs)>>)>>,
   pantryText |-> sCoffee,
   picked |-> <<Meal(101, sSoup), Meal(102, sPilaf)>>,
   hiddenShoppingKeys |-> <<>>]

\* The main page right after the initial load of one of the documents the
\* aggregation is run on or of the document with quantities that are not
\* positive; the extras rows are edited and meals are taken out of picked.
InitList == InitLoaded(AggStores \union {ZeroQtyState})

SpecList == InitList /\ [][NextAgg]_vars

\* every ingredient of every recipe of the document has a quantity > 0
AllQtyPositive(st) ==
  \A r \in 1..Len(st.recipes) :
    \A g \in 1..Len(st.recipes[r].ingredients) : st.recipes[r].ingredients[g].qty > 0

\* C31: the final shopping list (after aggregation and the merge of the
\* extras) never holds two entries with the same pair of normalized name
\* and unit, and every entry of it has a quantity > 0 whenever every
\* ingredient of every recipe of the document has a quantity > 0.
C31_FinalListUniqueAndPositive ==
  UIMain =>
    LET list == ShoppingListOf(state, extraItems)
    IN /\ \A e, f \in 1..Len(list) :
            normalizeName(list[e].name) = normalizeName(list[f].name)
            /\ list[e].unit = list[f].unit => e = f
       /\ AllQtyPositive(state) => \A e \in 1..Len(list) : list[e].qty > 0

\* after an edit of the extras rows the list of a document with positive
\* quantities only holds an extra counted more than once beside an entry
\* summed from ingredients
C31_Witness ==
  /\ UIMain /\ AllQtyPositive(state) /\ lastOp.op = "edit" /\ edits >= 1
  /\ LET list == ShoppingListOf(state, extraItems)
     IN /\ \E e \in 1..Len(list) : list[e].unit = <<>> /\ list[e].qty >= 2
        /\ \E e \in 1..Len(list) : list[e].unit # <<>> /\ list[e].qty >= 200
        /\ Len(list) >= 3

====
